---- MODULE Spec2Model ----
(***************************************************************************)
(* tscprojpy: scaling of Camtasia project documents.                       *)
(*                                                                         *)
(* The document is an untyped JSON tree.  The program rewrites it through  *)
(* PropertyTransformer.transform_dict (Spatial / Temporal), through        *)
(* DirectScaler.scale_data, or through the typed models (Project,          *)
(* Timeline, Track, Media, SourceBin), and writes it with                  *)
(* CamtasiaJSONEncoder.                                                    *)
(***************************************************************************)
EXTENDS Integers, Sequences, FiniteSets, TLC

VARIABLES
    doc,      \* the document of the input file (the decoded tree)
    input,    \* the tree handed to the operation that ran last
    factor,   \* the scale factor of the operation, <<numerator, denominator>>
    op,       \* the operation that ran last ("none" before any ran)
    flag,     \* the option of the operation that ran: preserve_audio_duration
              \* of its TransformConfig, strict_version_check of its loader
    result,   \* the tree the operation returned (an err node inside: it raised)
    emitted,  \* the JSON text the operation encoded, as a sequence of tokens
    loaded,   \* the tree the transform step of the operation was given
    transformed,  \* the tree the transform step returned, before any encoding
    log,      \* the warnings the operation logged
    dest,     \* the text of the file at the output path, as a sequence of tokens
    raised,   \* the exception the operation surfaced to its caller ("none": none)
    steps,    \* the steps a command on files ran, in order, the failing one last
    second,   \* the factor of the second pass when two were run (else 1)
    models    \* <<m, m2>>: a typed model and the one read back from what it
              \* was serialised to (<<>> when the operation did neither)

vars == <<doc, input, factor, op, flag, result, emitted, loaded, transformed, log,
          dest, raised, steps, second, models>>

----------------------------------------------------------------------------
(* Bounds of the model *)

\* integer leaves of generated documents range over 0..MaxVal
MaxVal == 3
\* factors are k / FactorDen for k in 1..MaxFactorNum
MaxFactorNum == 5
FactorDen == 2
\* a write that fails does so after at most MaxPartial chunks of the text
MaxPartial == 1
\* two passes in a row also take the factors MaxUpscale and 1 / MaxUpscale
MaxUpscale == 6

----------------------------------------------------------------------------
(* Numbers.  A JSON / Python number is a record [t, n, d]:                  *)
(*   "int"   the integer n                                                 *)
(*   "bool"  True (n = 1) / False (n = 0); a bool is an int to isinstance  *)
(*   "real"  the float n/d, d > 0, in lowest terms                         *)
(*   "dmax"  the float (n/d) * 1.7976931348623157e308, 0 < |n/d| <= 1      *)
(*   "idmax" the integer of the same value as the "dmax" float             *)
(*   "inf", "ninf", "nan"  the IEEE special floats                         *)
(* Every node of a tree carries the same five fields so that any two nodes *)
(* can be compared.                                                        *)

\* id is the identity of a dict or list object: <<>> for one the program
\* created, the label the caller gave it for one of the caller's
Node(t, n, d, s, kv) == [t |-> t, n |-> n, d |-> d, s |-> s, kv |-> kv, id |-> <<>>]

I(v)      == Node("int", v, 1, <<>>, <<>>)
Bool(b)   == Node("bool", IF b THEN 1 ELSE 0, 1, <<>>, <<>>)
Null      == Node("null", 0, 1, <<>>, <<>>)
Inf       == Node("inf", 0, 1, <<>>, <<>>)
NInf      == Node("ninf", 0, 1, <<>>, <<>>)
NaN       == Node("nan", 0, 1, <<>>, <<>>)
Err       == Node("err", 0, 1, <<>>, <<>>)
\* a string is the sequence of its pieces (characters, or whole opaque words)
Str(s)    == Node("str", 0, 1, s, <<>>)
W(word)   == Str(<<word>>)
\* an object is the ordered sequence of its [k, v] entries, an array the
\* ordered sequence of its elements (entries with the empty key)
Obj(kv)   == Node("obj", 0, 1, <<>>, kv)
Arr(vs)   == Node("arr", 0, 1, <<>>, [i \in 1..Len(vs) |-> [k |-> "", v |-> vs[i]]])
KV(k, v)  == [k |-> k, v |-> v]

Abs(x) == IF x < 0 THEN -x ELSE x

RECURSIVE GCD(_, _)
GCD(a, b) == IF b = 0 THEN a ELSE GCD(b, a % b)

\* the float n/d (d # 0) in lowest terms with a positive denominator
R(n, d) ==
    LET g == GCD(Abs(n), Abs(d))
        s == IF d < 0 THEN -1 ELSE 1
    IN  Node("real", s * (n \div g), s * (d \div g), <<>>, <<>>)

\* the float (n/d) * DBL_MAX; beyond DBL_MAX the product overflows to infinity
DMax(n, d) ==
    LET r == R(n, d)
    IN  IF r.n > r.d THEN Inf
        ELSE IF -r.n > r.d THEN NInf
        ELSE IF r.n = 0 THEN R(0, 1)
        ELSE Node("dmax", r.n, r.d, <<>>, <<>>)

MaxFloat == DMax(1, 1)
MinFloat == DMax(-1, 1)

IsDict(x)  == x.t = "obj"
IsList(x)  == x.t = "arr"
IsStr(x)   == x.t = "str"
\* isinstance(x, int): Python's bool is a subclass of int
IsInt(x)   == x.t \in {"int", "bool", "idmax"}
\* isinstance(x, float)
IsFloat(x) == x.t \in {"real", "dmax", "inf", "ninf", "nan"}
\* isinstance(x, int | float)
IsNumber(x) == IsInt(x) \/ IsFloat(x)
IsFinite(x) == x.t \notin {"inf", "ninf", "nan"}

\* x * factor for a float factor fn/fd > 0: a float for every number, a
\* TypeError (the err node) for a string, None, list or dict
Mul(x, f) ==
    IF x.t \in {"int", "bool", "real"} THEN R(x.n * f[1], x.d * f[2])
    ELSE IF x.t \in {"dmax", "idmax"} THEN DMax(x.n * f[1], x.d * f[2])
    ELSE IF x.t \in {"inf", "ninf", "nan"} THEN x
    ELSE Err

\* int(x) of a float: truncation toward zero; OverflowError for an infinity,
\* ValueError for NaN
IntOf(x) ==
    IF x.t = "real"
      THEN I(IF x.n >= 0 THEN x.n \div x.d ELSE -((-x.n) \div x.d))
    ELSE IF x.t \in {"int", "bool"} THEN I(x.n)
    ELSE IF x.t \in {"dmax", "idmax"} THEN Node("idmax", x.n, x.d, <<>>, <<>>)
    ELSE Err

\* round(x) of a float: to the nearest integer, ties to the even one
RoundHalfEven(n, d) ==
    LET q == n \div d
        r == n - q * d
    IN  IF 2 * r < d THEN q
        ELSE IF 2 * r > d THEN q + 1
        ELSE IF q % 2 = 0 THEN q ELSE q + 1

Round(x) ==
    IF x.t = "real" THEN I(RoundHalfEven(x.n, x.d))
    ELSE IF x.t \in {"int", "bool"} THEN I(x.n)
    ELSE IF x.t \in {"dmax", "idmax"} THEN Node("idmax", x.n, x.d, <<>>, <<>>)
    ELSE Err

----------------------------------------------------------------------------
(* Trees *)

Keys(o)      == [i \in 1..Len(o.kv) |-> o.kv[i].k]
HasKey(o, k) == \E i \in 1..Len(o.kv) : o.kv[i].k = k
\* o[k] for a key the object has
Get(o, k)    == o.kv[CHOOSE i \in 1..Len(o.kv) : o.kv[i].k = k].v
\* o.get(k, default)
GetOr(o, k, default) == IF HasKey(o, k) THEN Get(o, k) ELSE default
\* o[k] = v for a key the object has: the key keeps its position
SetKey(o, k, v) ==
    [o EXCEPT !.kv = [i \in 1..Len(o.kv) |-> IF o.kv[i].k = k THEN KV(k, v) ELSE o.kv[i]]]
\* o.copy(): a new object with the same entries
Copy(o) == [o EXCEPT !.id = <<>>]
\* the object o itself, its entries replaced
InPlace(o, kv) == [o EXCEPT !.kv = kv]
Elems(a)     == [i \in 1..Len(a.kv) |-> a.kv[i].v]

RECURSIVE HasErr(_)
\* an operation that built a tree holding an err node raised instead
HasErr(x) ==
    \/ x.t = "err"
    \/ \E i \in 1..Len(x.kv) : HasErr(x.kv[i].v)

RECURSIVE LabelAt(_, _)
\* the tree x as the caller holds it: every dict and list is an object of
\* the caller's, identified by its position
LabelAt(x, p) ==
    IF IsDict(x) \/ IsList(x)
      THEN [x EXCEPT !.id = <<0>> \o p,
                     !.kv = [i \in 1..Len(x.kv) |->
                               KV(x.kv[i].k, LabelAt(x.kv[i].v, p \o <<i>>))]]
      ELSE x

Label(x) == LabelAt(x, <<>>)

RECURSIVE Objects(_)
\* the caller's objects met in a tree
Objects(x) ==
    (IF x.id # <<>> THEN {x} ELSE {})
    \cup UNION {Objects(x.kv[i].v) : i \in 1..Len(x.kv)}

RECURSIVE AfterCall(_, _)
\* the tree x of the caller once a call has returned the tree out: an
\* object of x that out holds too is that very object, as the call left it
AfterCall(x, out) ==
    IF IsDict(x) \/ IsList(x)
      THEN LET same == {o \in Objects(out) : o.id = x.id}
               now  == IF x.id # <<>> /\ same # {} THEN CHOOSE o \in same : TRUE ELSE x
           IN  [now EXCEPT !.kv = [i \in 1..Len(now.kv) |->
                                     KV(now.kv[i].k, AfterCall(now.kv[i].v, out))]]
      ELSE x

\* the parent key of the root call (parent_key = None)
NoKey == "None"

----------------------------------------------------------------------------
(* PropertyTransformer.transform_dict, Spatial pass *)

\* a temporal key taken for a spatial one
scale_properties_and_duration ==
    {"width", "height", "translation0", "translation1", "translation2",
     "scale0", "scale1", "scale2",
     "geometryCrop0", "geometryCrop1", "geometryCrop2", "geometryCrop3",
     "corner-radius", "stroke-width", "widthAttr", "heightAttr", "duration"}

scale_properties ==
    {"width", "height", "translation0", "translation1", "translation2",
     "scale0", "scale1", "scale2",
     "geometryCrop0", "geometryCrop1", "geometryCrop2", "geometryCrop3",
     "corner-radius", "stroke-width", "widthAttr", "heightAttr"}

\* every number scaled, whatever its key
scale_value_any_key(key, value, f) ==
    IF IsNumber(value) THEN Mul(value, f) ELSE value

scale_value(key, value, f) ==
    IF key \in scale_properties /\ IsNumber(value) THEN Mul(value, f) ELSE value

\* the keyframes branch: each entry copied, its "value" multiplied when the
\* owning property is spatial
\* the owner of the list not looked at
spatial_keyframe_any_owner(kf, parent_key, f) ==
    IF IsDict(kf) /\ HasKey(kf, "value")
      THEN SetKey(Copy(kf), "value", Mul(Get(kf, "value"), f))
      ELSE IF IsDict(kf) THEN Copy(kf) ELSE kf

spatial_keyframe(kf, parent_key, f) ==
    IF IsDict(kf) /\ HasKey(kf, "value") /\ parent_key \in scale_properties
      THEN SetKey(Copy(kf), "value", Mul(Get(kf, "value"), f))
      ELSE IF IsDict(kf) THEN Copy(kf) ELSE kf

RECURSIVE spatial_recursive(_, _, _)
spatial_recursive(obj, parent_key, f) ==
    IF IsDict(obj) THEN
      Obj([i \in 1..Len(obj.kv) |->
        LET key == obj.kv[i].k
            value == obj.kv[i].v
        IN  KV(key,
              IF key = "rect" /\ IsList(value) /\ Len(value.kv) = 4
                THEN Arr([j \in 1..4 |-> Mul(value.kv[j].v, f)])
              ELSE IF key = "trackRect" /\ IsList(value) /\ Len(value.kv) = 4
                THEN Arr([j \in 1..4 |-> Mul(value.kv[j].v, f)])
              ELSE IF key = "keyframes" /\ IsList(value)
                THEN Arr([j \in 1..Len(value.kv) |->
                            spatial_keyframe(value.kv[j].v, parent_key, f)])
              ELSE IF IsDict(value) \/ IsList(value)
                THEN spatial_recursive(value, key, f)
              ELSE scale_value(key, value, f))])
    ELSE IF IsList(obj) THEN
      Arr([i \in 1..Len(obj.kv) |-> spatial_recursive(obj.kv[i].v, parent_key, f)])
    ELSE obj

transform_dict_spatial(data, f) == spatial_recursive(data, NoKey, f)

----------------------------------------------------------------------------
(* PropertyTransformer.transform_dict, Temporal pass *)

time_properties ==
    {"start", "duration", "mediaStart", "mediaDuration", "trimStartSum",
     "time", "endTime"}

AMFile == W("AMFile")

\* the audio exception left out
should_scale_temporal_no_audio(parent_type, key, preserve) ==
    key \in time_properties

should_scale_temporal(parent_type, key, preserve) ==
    IF key \notin time_properties THEN FALSE
    ELSE IF preserve /\ parent_type = AMFile
            /\ key \in {"duration", "mediaStart", "mediaDuration"} THEN FALSE
    ELSE TRUE

RECURSIVE temporal_recursive(_, _, _, _)
temporal_recursive(obj, parent_type, f, preserve) ==
    IF IsDict(obj) THEN
      LET current_type == GetOr(obj, "_type", parent_type) IN
      Obj([i \in 1..Len(obj.kv) |->
        LET key == obj.kv[i].k
            value == obj.kv[i].v
        IN  KV(key,
              IF key = "range" /\ IsList(value) /\ Len(value.kv) = 2
                THEN Arr([j \in 1..2 |-> IntOf(Mul(value.kv[j].v, f))])
              ELSE IF should_scale_temporal(current_type, key, preserve)
                      /\ IsNumber(value)
                THEN IntOf(Mul(value, f))
              ELSE IF IsDict(value) \/ IsList(value)
                THEN temporal_recursive(value, current_type, f, preserve)
              ELSE value)])
    ELSE IF IsList(obj) THEN
      Arr([i \in 1..Len(obj.kv) |->
             temporal_recursive(obj.kv[i].v, parent_type, f, preserve)])
    ELSE obj

transform_dict_temporal(data, f, preserve) ==
    temporal_recursive(data, Null, f, preserve)

----------------------------------------------------------------------------
(* DirectScaler *)

direct_scale_properties ==
    {"width", "height", "widthAttr", "heightAttr",
     "translation0", "translation1", "translation2",
     "scale0", "scale1", "scale2",
     "geometryCrop0", "geometryCrop1", "geometryCrop2", "geometryCrop3",
     "corner-radius", "stroke-width",
     "default-width", "default-height",
     "default-translation0", "default-translation1", "default-translation2",
     "default-scale", "default-scale0", "default-scale1", "default-scale2"}

preserve_properties == {"sampleRate", "integratedLUFS", "peakLevel"}

\* scaled = v * scale_factor; int(round(scaled)) if isinstance(v, int)
\* else scaled
\* the product cut off toward zero
scale_number_truncating(v, f) ==
    IF IsInt(v) THEN IntOf(Mul(v, f)) ELSE Mul(v, f)

scale_number(v, f) == IF IsInt(v) THEN Round(Mul(v, f)) ELSE Mul(v, f)

\* DirectScaler._fix_special_values
RECURSIVE fix_special_values_keeping_nan(_)
\* NaN let through
fix_special_values_keeping_nan(obj) ==
    IF obj.t = "ninf" THEN MinFloat
    ELSE IF obj.t = "inf" THEN MaxFloat
    ELSE IF IsDict(obj) THEN
      Obj([i \in 1..Len(obj.kv) |->
             KV(obj.kv[i].k, fix_special_values_keeping_nan(obj.kv[i].v))])
    ELSE IF IsList(obj) THEN
      Arr([i \in 1..Len(obj.kv) |-> fix_special_values_keeping_nan(obj.kv[i].v)])
    ELSE obj

RECURSIVE fix_special_values(_)
fix_special_values(obj) ==
    IF obj.t = "ninf" THEN MinFloat
    ELSE IF obj.t = "inf" THEN MaxFloat
    ELSE IF obj.t = "nan" THEN R(0, 1)
    ELSE IF IsDict(obj) THEN
      Obj([i \in 1..Len(obj.kv) |->
             KV(obj.kv[i].k, fix_special_values(obj.kv[i].v))])
    ELSE IF IsList(obj) THEN
      Arr([i \in 1..Len(obj.kv) |-> fix_special_values(obj.kv[i].v)])
    ELSE obj

\* the entry's "value" scaled by the branch and again by the walk that follows
direct_keyframe_rescaled(kf, parent_key, f) ==
    IF IsDict(kf) /\ HasKey(kf, "value") /\ parent_key \in direct_scale_properties
       /\ IsNumber(Get(kf, "value"))
      THEN SetKey(kf, "value", scale_number(scale_number(Get(kf, "value"), f), f))
      ELSE kf

\* the keyframes branch of _scale_recursive: the entry's "value" is scaled in
\* place when the owning property is spatial and the value is a number
direct_keyframe(kf, parent_key, f) ==
    IF IsDict(kf) /\ HasKey(kf, "value") /\ parent_key \in direct_scale_properties
       /\ IsNumber(Get(kf, "value"))
      THEN SetKey(kf, "value", scale_number(Get(kf, "value"), f))
      ELSE kf

\* DirectScaler._scale_recursive.  The code scales in place; the operator
\* returns the object as the call leaves it.  A rect / trackRect is replaced
\* by a new list and the old list is then walked (a walk over scalars changes
\* nothing); keyframe entries and wrapped {value} objects are changed in place
\* and then walked again by the trailing recursion.
RECURSIVE scale_recursive(_, _, _)
scale_recursive(obj, parent_key, f) ==
    IF IsDict(obj) THEN
      InPlace(obj, [i \in 1..Len(obj.kv) |->
        LET key == obj.kv[i].k
            value == obj.kv[i].v
        IN  KV(key,
              IF key = "rect" /\ IsList(value) /\ Len(value.kv) = 4
                THEN Arr([j \in 1..4 |-> scale_number(value.kv[j].v, f)])
              ELSE IF key = "trackRect" /\ IsList(value) /\ Len(value.kv) = 4
                THEN Arr([j \in 1..4 |-> scale_number(value.kv[j].v, f)])
              ELSE IF key = "keyframes" /\ IsList(value)
                THEN scale_recursive(
                       InPlace(value, [j \in 1..Len(value.kv) |->
                         KV("", direct_keyframe(value.kv[j].v, parent_key, f))]),
                       key, f)
              ELSE IF key \in direct_scale_properties
                      /\ key \notin preserve_properties
                THEN IF IsNumber(value) THEN scale_number(value, f)
                     ELSE IF IsDict(value) /\ HasKey(value, "value")
                             /\ IsNumber(Get(value, "value"))
                       THEN scale_recursive(
                              SetKey(value, "value",
                                     scale_number(Get(value, "value"), f)),
                              key, f)
                     ELSE IF IsDict(value) \/ IsList(value)
                       THEN scale_recursive(value, key, f)
                     ELSE value
              ELSE IF IsDict(value) \/ IsList(value)
                THEN scale_recursive(value, key, f)
              ELSE value)])
    ELSE IF IsList(obj) THEN
      InPlace(obj, [i \in 1..Len(obj.kv) |->
                      KV("", scale_recursive(obj.kv[i].v, parent_key, f))])
    ELSE obj

\* DirectScaler.scale_data: width and height of the root, then every nested
\* container
scale_data(data, f) ==
    InPlace(data, [i \in 1..Len(data.kv) |->
      LET key == data.kv[i].k
          value == data.kv[i].v
      IN  KV(key,
            IF key \in {"width", "height"} THEN scale_number(value, f)
            ELSE IF IsDict(value) \/ IsList(value)
              THEN scale_recursive(value, key, f)
            ELSE value)])

----------------------------------------------------------------------------
(* CamtasiaJSONEncoder and the JSON text *)

\* CamtasiaJSONEncoder._preprocess
RECURSIVE preprocess_skipping_lists(_)
\* the items of lists not visited
preprocess_skipping_lists(obj) ==
    IF obj.t = "ninf" THEN MinFloat
    ELSE IF obj.t = "inf" THEN MaxFloat
    ELSE IF obj.t = "nan" THEN R(0, 1)
    ELSE IF IsDict(obj) THEN
      Obj([i \in 1..Len(obj.kv) |->
             KV(obj.kv[i].k, preprocess_skipping_lists(obj.kv[i].v))])
    ELSE obj

RECURSIVE preprocess(_)
preprocess(obj) ==
    IF obj.t = "ninf" THEN MinFloat
    ELSE IF obj.t = "inf" THEN MaxFloat
    ELSE IF obj.t = "nan" THEN R(0, 1)
    ELSE IF IsDict(obj) THEN
      Obj([i \in 1..Len(obj.kv) |-> KV(obj.kv[i].k, preprocess(obj.kv[i].v))])
    ELSE IF IsList(obj) THEN
      Arr([i \in 1..Len(obj.kv) |-> preprocess(obj.kv[i].v)])
    ELSE obj

RECURSIVE Kinds(_)
\* the kinds of the nodes of a tree
Kinds(x) == {x.t} \cup UNION {Kinds(x.kv[i].v) : i \in 1..Len(x.kv)}

\* the warnings _preprocess logs on a tree
preprocess_warnings(obj) ==
    {m \in {"Converting -Infinity to safe minimum value",
            "Converting Infinity to safe maximum value",
            "Converting NaN to 0.0"} :
       \/ m = "Converting -Infinity to safe minimum value" /\ "ninf" \in Kinds(obj)
       \/ m = "Converting Infinity to safe maximum value" /\ "inf" \in Kinds(obj)
       \/ m = "Converting NaN to 0.0" /\ "nan" \in Kinds(obj)}

RECURSIVE Flatten(_)
\* the concatenation of a sequence of token sequences
Flatten(ss) == IF ss = <<>> THEN <<>> ELSE Head(ss) \o Flatten(Tail(ss))

Tok(kind, node) == [tok |-> kind, val |-> node]

\* json.JSONEncoder with allow_nan at its default: the text of a tree, as
\* tokens.  A non-finite float is written as the bare word NaN, Infinity or
\* -Infinity.
RECURSIVE json_text(_)
json_text(x) ==
    IF IsDict(x) THEN
      <<Tok("{", Null)>>
      \o Flatten([i \in 1..Len(x.kv) |->
                    <<Tok("key", W(x.kv[i].k))>> \o json_text(x.kv[i].v)])
      \o <<Tok("}", Null)>>
    ELSE IF IsList(x) THEN
      <<Tok("[", Null)>>
      \o Flatten([i \in 1..Len(x.kv) |-> json_text(x.kv[i].v)])
      \o <<Tok("]", Null)>>
    ELSE IF x.t = "inf" THEN <<Tok("Infinity", Null)>>
    ELSE IF x.t = "ninf" THEN <<Tok("-Infinity", Null)>>
    ELSE IF x.t = "nan" THEN <<Tok("NaN", Null)>>
    ELSE <<Tok("scalar", x)>>

\* CamtasiaJSONEncoder.encode / iterencode: preprocess, then the base encoder
encode(o) == json_text(preprocess(o))

----------------------------------------------------------------------------
(* Python helpers of the typed models *)

\* the value of bool(x)
Truthy(x) ==
    IF x.t \in {"int", "bool", "real"} THEN x.n # 0
    ELSE IF x.t = "str" THEN x.s # <<>>
    ELSE IF x.t \in {"obj", "arr"} THEN x.kv # <<>>
    ELSE x.t # "null"

\* data.get(key, default): AttributeError when data is no dict
DGet(data, key, default) ==
    IF IsDict(data) THEN GetOr(data, key, default) ELSE Err

Digits == <<"0", "1", "2", "3", "4", "5", "6", "7", "8", "9">>
IsDigit(c) == \E i \in 1..10 : Digits[i] = c
DigitVal(c) == (CHOOSE i \in 1..10 : Digits[i] = c) - 1

RECURSIVE DigitsVal(_, _)
\* the number a sequence of digit characters writes, after the prefix acc
DigitsVal(cs, acc) ==
    IF cs = <<>> THEN acc ELSE DigitsVal(Tail(cs), 10 * acc + DigitVal(Head(cs)))

IsDigits(cs) == cs # <<>> /\ \A i \in 1..Len(cs) : IsDigit(cs[i])

\* float(x): of a number, of the text of a number; an error otherwise
FloatOf(x) ==
    IF x.t \in {"int", "bool", "real"} THEN R(x.n, x.d)
    ELSE IF x.t \in {"dmax", "idmax"} THEN DMax(x.n, x.d)
    ELSE IF x.t \in {"inf", "ninf", "nan"} THEN x
    ELSE IF x.t = "str" /\ IsDigits(x.s) THEN R(DigitsVal(x.s, 0), 1)
    ELSE Err

\* int(x): of a number (truncating), of the text of an integer
IntConv(x) ==
    IF IsNumber(x) THEN IntOf(x)
    ELSE IF x.t = "str" /\ IsDigits(x.s) THEN I(DigitsVal(x.s, 0))
    ELSE Err

SlashAt(cs) == {i \in 1..Len(cs) : cs[i] = "/"}

\* SourceTrack.from_dict: a sampleRate given as the text "num/den" becomes the
\* float num/den; 0 when the text does not split in two numbers or den is 0
parse_sample_rate(sample_rate) ==
    IF IsStr(sample_rate) /\ SlashAt(sample_rate.s) # {} THEN
      IF Cardinality(SlashAt(sample_rate.s)) # 1 THEN I(0)
      ELSE LET i   == CHOOSE j \in SlashAt(sample_rate.s) : TRUE
               num == SubSeq(sample_rate.s, 1, i - 1)
               den == SubSeq(sample_rate.s, i + 1, Len(sample_rate.s))
           IN  IF ~IsDigits(num) \/ ~IsDigits(den) THEN I(0)
               ELSE IF DigitsVal(den, 0) = 0 THEN I(0)
               ELSE R(DigitsVal(num, 0), DigitsVal(den, 0))
    ELSE sample_rate

EmptyDict == Obj(<<>>)
EmptyList == Arr(<<>>)

\* the entries of an object that are present: [k, v, keep] triples filtered
RECURSIVE KeepEntries(_)
KeepEntries(es) ==
    IF es = <<>> THEN <<>>
    ELSE IF Head(es).keep THEN <<KV(Head(es).k, Head(es).v)>> \o KeepEntries(Tail(es))
    ELSE KeepEntries(Tail(es))

E(k, v)        == [k |-> k, v |-> v, keep |-> TRUE]
Opt(k, v)      == [k |-> k, v |-> v, keep |-> Truthy(v)]
ObjOf(entries) == Obj(KeepEntries(entries))

\* [f(x) for x in xs]: TypeError when xs is no list
MapList(xs, F(_)) ==
    IF IsList(xs) THEN Arr([i \in 1..Len(xs.kv) |-> F(xs.kv[i].v)]) ELSE Err

----------------------------------------------------------------------------
(* models/source.py *)

SourceTrack_from_dict(data) ==
    [range        |-> DGet(data, "range", Arr(<<I(0), I(0)>>)),
     type         |-> DGet(data, "type", I(0)),
     edit_rate    |-> DGet(data, "editRate", I(0)),
     track_rect   |-> DGet(data, "trackRect", Arr(<<I(0), I(0), I(0), I(0)>>)),
     sample_rate  |-> parse_sample_rate(DGet(data, "sampleRate", I(0))),
     bit_depth    |-> DGet(data, "bitDepth", I(0)),
     num_channels |-> DGet(data, "numChannels", I(0)),
     integrated_lufs |-> DGet(data, "integratedLUFS", R(100, 1)),
     peak_level   |-> DGet(data, "peakLevel", R(-1, 1)),
     meta_data    |-> DGet(data, "metaData", Str(<<>>)),
     parameters   |-> DGet(data, "parameters", EmptyDict),
     tag          |-> DGet(data, "tag", I(0))]

\* SourceTrack(range=..., sample_rate=...): the dataclass built from the
\* values as they are; sample_rate is a float or a str
SourceTrack_new(data) ==
    [SourceTrack_from_dict(data) EXCEPT !.sample_rate = DGet(data, "sampleRate", I(0))]

SourceTrack_to_dict(t) ==
    ObjOf(<<E("range", t.range), E("type", t.type), E("editRate", t.edit_rate),
            E("trackRect", t.track_rect), E("sampleRate", t.sample_rate),
            E("bitDepth", t.bit_depth), E("numChannels", t.num_channels),
            E("integratedLUFS", t.integrated_lufs), E("peakLevel", t.peak_level),
            E("metaData", t.meta_data),
            Opt("tag", t.tag), Opt("parameters", t.parameters)>>)

\* [int(rect[0] * factor), ..., int(rect[3] * factor)]
scale_rect(rect, f) ==
    IF IsList(rect) /\ Len(rect.kv) >= 4
      THEN Arr([j \in 1..4 |-> IntOf(Mul(rect.kv[j].v, f))])
      ELSE Err

SourceItem_from_dict(data) ==
    [id       |-> DGet(data, "id", I(0)),
     src      |-> DGet(data, "src", Str(<<>>)),
     rect     |-> DGet(data, "rect", Arr(<<I(0), I(0), I(0), I(0)>>)),
     last_mod |-> DGet(data, "lastMod", Str(<<>>)),
     source_tracks |->
        LET ts == DGet(data, "sourceTracks", EmptyList)
        IN  IF IsList(ts) THEN [i \in 1..Len(ts.kv) |-> SourceTrack_from_dict(ts.kv[i].v)]
            ELSE <<>>,
     tracks_ok |-> IsList(DGet(data, "sourceTracks", EmptyList)),
     loudness_normalization |-> DGet(data, "loudnessNormalization", Bool(TRUE)),
     metadata |-> DGet(data, "metadata", EmptyDict)]

SourceItem_scale_spatial(item, f) ==
    [item EXCEPT
       !.rect = scale_rect(item.rect, f),
       !.source_tracks =
          [i \in 1..Len(item.source_tracks) |->
             [item.source_tracks[i] EXCEPT
                !.track_rect = scale_rect(item.source_tracks[i].track_rect, f)]]]

SourceItem_to_dict(item) ==
    ObjOf(<<E("id", item.id), E("src", item.src), E("rect", item.rect),
            E("lastMod", item.last_mod),
            E("loudnessNormalization", item.loudness_normalization),
            E("sourceTracks",
              IF item.tracks_ok
                THEN Arr([i \in 1..Len(item.source_tracks) |->
                            SourceTrack_to_dict(item.source_tracks[i])])
                ELSE Err),
            Opt("metadata", item.metadata)>>)

\* SourceBin: the list of its items
SourceBin_from_list(data) ==
    [i \in 1..Len(data.kv) |-> SourceItem_from_dict(data.kv[i].v)]
SourceBin_scale_spatial(items, f) ==
    [i \in 1..Len(items) |-> SourceItem_scale_spatial(items[i], f)]
SourceBin_to_list(items) ==
    Arr([i \in 1..Len(items) |-> SourceItem_to_dict(items[i])])

----------------------------------------------------------------------------
(* models/canvas.py *)

Canvas_from_dict(data) ==
    [width      |-> FloatOf(DGet(data, "width", I(1920))),
     height     |-> FloatOf(DGet(data, "height", I(1080))),
     frame_rate |-> IntConv(DGet(data, "videoFormatFrameRate", I(30)))]

Canvas_scale(c, f) ==
    [c EXCEPT !.width = Mul(c.width, f), !.height = Mul(c.height, f)]

----------------------------------------------------------------------------
(* models/factory.py and models/media.py *)

media_class(media_type) ==
    IF media_type \in {W("VMFile"), W("ScreenVMFile"), W("UnifiedMedia"),
                       W("Group"), W("StitchedMedia")} THEN "VideoMedia"
    ELSE IF media_type = W("AMFile") THEN "AudioMedia"
    ELSE IF media_type = W("IMFile") THEN "ImageMedia"
    ELSE IF media_type = W("Callout") THEN "Callout"
    ELSE "VideoMedia"

create_media_from_dict(data) ==
    [cls            |-> media_class(DGet(data, "_type", Str(<<>>))),
     id             |-> DGet(data, "id", I(0)),
     src            |-> DGet(data, "src", I(0)),
     track_number   |-> DGet(data, "trackNumber", I(0)),
     start          |-> DGet(data, "start", I(0)),
     duration       |-> DGet(data, "duration", I(0)),
     media_start    |-> DGet(data, "mediaStart", I(0)),
     media_duration |-> DGet(data, "mediaDuration", I(0)),
     scalar         |-> DGet(data, "scalar", R(1, 1)),
     attributes     |-> DGet(data, "attributes", EmptyDict),
     parameters     |-> DGet(data, "parameters", EmptyDict),
     effects        |-> DGet(data, "effects", EmptyList),
     metadata       |-> DGet(data, "metadata", EmptyDict),
     animation_tracks |-> DGet(data, "animationTracks", EmptyDict),
     channel_number |-> DGet(data, "channelNumber", Str(<<"0", ",", "1">>)),
     trim_start_sum |-> DGet(data, "trimStartSum", I(0)),
     definition     |-> DGet(data, "def", EmptyDict)]

\* Media._scale_keyframes_temporal, one entry
keyframe_temporal(kf, f) ==
    IF IsDict(kf) THEN
      Obj([i \in 1..Len(kf.kv) |->
             IF kf.kv[i].k \in {"time", "endTime", "duration"} /\ IsNumber(kf.kv[i].v)
               THEN KV(kf.kv[i].k, IntOf(Mul(kf.kv[i].v, f)))
               ELSE kf.kv[i]])
    ELSE IF IsList(kf)
            /\ \A i \in 1..Len(kf.kv) :
                  kf.kv[i].v \notin {W("time"), W("endTime"), W("duration")}
      THEN Copy(kf)
    ELSE Err

scale_keyframes_temporal(keyframes, f) ==
    IF IsList(keyframes)
      THEN Arr([i \in 1..Len(keyframes.kv) |-> keyframe_temporal(keyframes.kv[i].v, f)])
    ELSE IF (IsDict(keyframes) /\ keyframes.kv = <<>>) \/ keyframes = Str(<<>>)
      THEN EmptyList
    ELSE Err

\* Media._scale_keyframes_spatial, one entry
keyframe_spatial(kf, f) ==
    IF IsDict(kf) THEN
      IF HasKey(kf, "value") THEN SetKey(Copy(kf), "value", Mul(Get(kf, "value"), f))
      ELSE Copy(kf)
    ELSE IF IsList(kf) /\ \A i \in 1..Len(kf.kv) : kf.kv[i].v # W("value")
      THEN Copy(kf)
    ELSE Err

scale_keyframes_spatial(keyframes, f) ==
    IF IsList(keyframes)
      THEN Arr([i \in 1..Len(keyframes.kv) |-> keyframe_spatial(keyframes.kv[i].v, f)])
    ELSE IF (IsDict(keyframes) /\ keyframes.kv = <<>>) \/ keyframes = Str(<<>>)
      THEN EmptyList
    ELSE Err

\* the loop shared by the scale_temporal methods: the keyframes of every
\* parameter that is an object holding a "keyframes" entry are rescaled
temporal_parameters(parameters, f) ==
    IF ~IsDict(parameters) THEN Err
    ELSE Obj([i \in 1..Len(parameters.kv) |->
           LET value == parameters.kv[i].v
           IN  IF IsDict(value) /\ HasKey(value, "keyframes")
                 THEN KV(parameters.kv[i].k,
                         SetKey(value, "keyframes",
                                scale_keyframes_temporal(Get(value, "keyframes"), f)))
                 ELSE parameters.kv[i]])

\* the parameter names that hold "translation", "scale" or "geometryCrop"
spatial_named ==
    {"translation0", "translation1", "translation2", "scale0", "scale1", "scale2",
     "geometryCrop0", "geometryCrop1", "geometryCrop2", "geometryCrop3",
     "default-translation0", "default-translation1", "default-translation2",
     "default-scale", "default-scale0", "default-scale1", "default-scale2"}

parameter_keys ==
    {"translation0", "translation1", "translation2", "scale0", "scale1", "scale2",
     "geometryCrop0", "geometryCrop1", "geometryCrop2", "geometryCrop3"}

\* Media._scale_parameters
scale_parameters(parameters, f) ==
    IF ~IsDict(parameters) THEN Err
    ELSE Obj([i \in 1..Len(parameters.kv) |->
           LET key == parameters.kv[i].k
               value == parameters.kv[i].v
           IN  IF key \in parameter_keys /\ IsNumber(value)
                 THEN KV(key, Mul(value, f))
               ELSE IF IsDict(value) /\ HasKey(value, "keyframes")
                       /\ key \in spatial_named
                 THEN KV(key, SetKey(value, "keyframes",
                                     scale_keyframes_spatial(Get(value, "keyframes"), f)))
               ELSE parameters.kv[i]])

\* x.copy() of a field that must be a dict (or a list for effects)
CopyOf(x) == IF IsDict(x) \/ IsList(x) THEN Copy(x) ELSE Err

copied_fields(m) ==
    [m EXCEPT !.attributes = CopyOf(m.attributes),
              !.effects = CopyOf(m.effects),
              !.metadata = CopyOf(m.metadata),
              !.animation_tracks = CopyOf(m.animation_tracks)]

\* int(x * factor) if isinstance(x, int | float) else x
int_if_number(x, f) == IF IsNumber(x) THEN IntOf(Mul(x, f)) ELSE x

VideoMedia_scale_temporal(m, f) ==
    [copied_fields(m) EXCEPT
       !.start = IntOf(Mul(m.start, f)),
       !.duration = IntOf(Mul(m.duration, f)),
       !.media_start = int_if_number(m.media_start, f),
       !.media_duration = int_if_number(m.media_duration, f),
       !.parameters = temporal_parameters(m.parameters, f)]

AudioMedia_scale_temporal(m, f) ==
    [copied_fields(m) EXCEPT
       !.start = IntOf(Mul(m.start, f)),
       !.parameters = temporal_parameters(m.parameters, f)]

ImageMedia_scale_temporal(m, f) ==
    [copied_fields(m) EXCEPT
       !.start = IntOf(Mul(m.start, f)),
       !.duration = IntOf(Mul(m.duration, f)),
       !.trim_start_sum = IntOf(Mul(m.trim_start_sum, f)),
       !.parameters = temporal_parameters(m.parameters, f)]

Callout_scale_temporal(m, f) ==
    [copied_fields(m) EXCEPT
       !.start = IntOf(Mul(m.start, f)),
       !.duration = IntOf(Mul(m.duration, f)),
       !.definition = CopyOf(m.definition),
       !.parameters = temporal_parameters(m.parameters, f)]

\* media.scale_temporal(factor), dispatched on the class
Media_scale_temporal(m, f) ==
    IF m.cls = "AudioMedia" THEN AudioMedia_scale_temporal(m, f)
    ELSE IF m.cls = "ImageMedia" THEN ImageMedia_scale_temporal(m, f)
    ELSE IF m.cls = "Callout" THEN Callout_scale_temporal(m, f)
    ELSE VideoMedia_scale_temporal(m, f)

\* Callout.scale_spatial: the definition's own spatial keys
scale_definition(definition, f) ==
    IF ~IsDict(definition) THEN Err
    ELSE Obj([i \in 1..Len(definition.kv) |->
           IF definition.kv[i].k \in {"width", "height", "corner-radius", "stroke-width"}
             THEN KV(definition.kv[i].k, Mul(definition.kv[i].v, f))
             ELSE definition.kv[i]])

\* media.scale_spatial(factor): audio keeps its parameters
Media_scale_spatial(m, f) ==
    IF m.cls = "AudioMedia"
      THEN [copied_fields(m) EXCEPT !.parameters = CopyOf(m.parameters)]
    ELSE IF m.cls = "Callout"
      THEN [copied_fields(m) EXCEPT
              !.definition = scale_definition(m.definition, f),
              !.parameters = scale_parameters(m.parameters, f)]
    ELSE [copied_fields(m) EXCEPT !.parameters = scale_parameters(m.parameters, f)]

\* get_type(): a video item reads its attributes
Media_get_type(m) ==
    IF m.cls = "AudioMedia" THEN AMFile
    ELSE IF m.cls = "ImageMedia" THEN W("IMFile")
    ELSE IF m.cls = "Callout" THEN W("Callout")
    ELSE DGet(m.attributes, "_type", W("VMFile"))

Media_to_dict(m) ==
    ObjOf(<<E("id", m.id), E("_type", Media_get_type(m)), E("src", m.src),
            E("trackNumber", m.track_number), E("start", m.start),
            E("duration", m.duration), E("mediaStart", m.media_start),
            E("mediaDuration", m.media_duration), E("scalar", m.scalar),
            Opt("attributes", m.attributes), Opt("parameters", m.parameters),
            Opt("effects", m.effects), Opt("metadata", m.metadata),
            Opt("animationTracks", m.animation_tracks),
            [k |-> "channelNumber", v |-> m.channel_number,
             keep |-> m.cls = "AudioMedia"],
            [k |-> "trimStartSum", v |-> m.trim_start_sum,
             keep |-> m.cls = "ImageMedia" /\ Truthy(m.trim_start_sum)],
            [k |-> "def", v |-> m.definition,
             keep |-> m.cls = "Callout" /\ Truthy(m.definition)]>>)

----------------------------------------------------------------------------
(* models/timeline.py *)

Transition_from_dict(data) ==
    [name        |-> DGet(data, "name", Str(<<>>)),
     duration    |-> DGet(data, "duration", I(0)),
     left_media  |-> DGet(data, "leftMedia", Null),
     right_media |-> DGet(data, "rightMedia", Null),
     attributes  |-> DGet(data, "attributes", EmptyDict)]

Transition_scale_temporal(t, f) ==
    [t EXCEPT !.duration = IntOf(Mul(t.duration, f)),
              !.attributes = CopyOf(t.attributes)]

Transition_to_dict(t) ==
    ObjOf(<<E("name", t.name), E("duration", t.duration),
            E("attributes", t.attributes),
            [k |-> "leftMedia", v |-> t.left_media, keep |-> t.left_media # Null],
            [k |-> "rightMedia", v |-> t.right_media, keep |-> t.right_media # Null]>>)

\* the elements of a list to iterate; iterating anything else fails
ListOf(x) == IF IsList(x) THEN Elems(x) ELSE <<>>

Track_from_dict(track_dict) ==
    [track_index |-> DGet(track_dict, "trackIndex", I(0)),
     medias      |-> LET ms == ListOf(DGet(track_dict, "medias", EmptyList))
                     IN  [i \in 1..Len(ms) |-> create_media_from_dict(ms[i])],
     transitions |-> LET ts == ListOf(DGet(track_dict, "transitions", EmptyList))
                     IN  [i \in 1..Len(ts) |-> Transition_from_dict(ts[i])],
     lists_ok    |-> /\ IsList(DGet(track_dict, "medias", EmptyList))
                     /\ IsList(DGet(track_dict, "transitions", EmptyList)),
     parameters  |-> DGet(track_dict, "parameters", EmptyDict),
     ident       |-> DGet(track_dict, "ident", Str(<<>>)),
     audio_muted |-> DGet(track_dict, "audioMuted", Bool(FALSE)),
     video_hidden |-> DGet(track_dict, "videoHidden", Bool(FALSE)),
     magnetic    |-> DGet(track_dict, "magnetic", Bool(FALSE)),
     matte       |-> DGet(track_dict, "matte", I(0)),
     solo        |-> DGet(track_dict, "solo", Bool(FALSE)),
     metadata    |-> DGet(track_dict, "metadata", EmptyDict)]

Track_scale_spatial(t, f) ==
    [t EXCEPT !.medias = [i \in 1..Len(t.medias) |-> Media_scale_spatial(t.medias[i], f)],
              !.parameters = CopyOf(t.parameters),
              !.metadata = CopyOf(t.metadata)]

Track_scale_temporal(t, f) ==
    [t EXCEPT !.medias = [i \in 1..Len(t.medias) |-> Media_scale_temporal(t.medias[i], f)],
              !.transitions = [i \in 1..Len(t.transitions) |->
                                 Transition_scale_temporal(t.transitions[i], f)],
              !.parameters = CopyOf(t.parameters),
              !.metadata = CopyOf(t.metadata)]

Track_to_dict(t) ==
    ObjOf(<<E("trackIndex", t.track_index),
            E("medias", IF t.lists_ok
                          THEN Arr([i \in 1..Len(t.medias) |-> Media_to_dict(t.medias[i])])
                          ELSE Err),
            E("parameters", t.parameters),
            [k |-> "transitions",
             v |-> Arr([i \in 1..Len(t.transitions) |->
                          Transition_to_dict(t.transitions[i])]),
             keep |-> t.transitions # <<>>],
            Opt("ident", t.ident), Opt("audioMuted", t.audio_muted),
            Opt("videoHidden", t.video_hidden), Opt("magnetic", t.magnetic),
            Opt("matte", t.matte), Opt("solo", t.solo),
            Opt("metadata", t.metadata)>>)

\* Timeline.from_dict: the tracks of the first scene's csml
Timeline_from_dict(data) ==
    LET scenes == DGet(DGet(data, "sceneTrack", EmptyDict), "scenes", EmptyList)
        first  == IF IsList(scenes) /\ scenes.kv # <<>> THEN scenes.kv[1].v ELSE EmptyDict
        track_data == DGet(DGet(first, "csml", EmptyDict), "tracks", EmptyList)
        usable == Truthy(scenes)
    IN  [id     |-> DGet(data, "id", I(0)),
         tracks |-> IF usable
                      THEN [i \in 1..Len(ListOf(track_data)) |->
                              Track_from_dict(ListOf(track_data)[i])]
                      ELSE <<>>,
         ok     |-> scenes.t # "err"
                    /\ (usable => IsList(scenes) /\ IsList(track_data))]

Timeline_scale_spatial(tl, f) ==
    [tl EXCEPT !.tracks = [i \in 1..Len(tl.tracks) |-> Track_scale_spatial(tl.tracks[i], f)]]

Timeline_scale_temporal(tl, f) ==
    [tl EXCEPT !.tracks = [i \in 1..Len(tl.tracks) |-> Track_scale_temporal(tl.tracks[i], f)]]

Timeline_to_dict(tl) ==
    IF ~tl.ok THEN Err
    ELSE
    Obj(<<KV("id", tl.id),
          KV("sceneTrack",
             Obj(<<KV("scenes",
                      Arr(<<Obj(<<KV("csml",
                                     Obj(<<KV("tracks",
                                              Arr([i \in 1..Len(tl.tracks) |->
                                                     Track_to_dict(tl.tracks[i])]))>>))>>)>>))>>))>>)

----------------------------------------------------------------------------
(* models/project.py *)

ProjectMetadata_from_dict(data) ==
    [title       |-> DGet(data, "title", Str(<<>>)),
     description |-> DGet(data, "description", Str(<<>>)),
     author      |-> DGet(data, "author", Str(<<>>)),
     version     |-> DGet(data, "version", W("9.0")),
     edit_rate   |-> DGet(data, "editRate", I(705600000)),
     target_loudness |-> DGet(data, "targetLoudness", R(-18, 1)),
     should_apply_loudness_normalization |->
                     DGet(data, "shouldApplyLoudnessNormalization", Bool(TRUE)),
     audio_format_sample_rate |-> DGet(data, "audioFormatSampleRate", I(44100)),
     allow_sub_frame_editing |-> DGet(data, "allowSubFrameEditing", Bool(FALSE)),
     authoring_client_name |-> DGet(data, "authoringClientName", EmptyDict)]

Project_from_dict(data) ==
    [canvas     |-> Canvas_from_dict(data),
     metadata   |-> ProjectMetadata_from_dict(data),
     source_bin |-> LET sb == DGet(data, "sourceBin", EmptyList)
                    IN  SourceBin_from_list(IF IsList(sb) THEN sb ELSE EmptyList),
     timeline   |-> LET tl == DGet(data, "timeline", EmptyDict)
                    IN  Timeline_from_dict(IF IsDict(tl) THEN tl ELSE EmptyDict)]

Project_scale_spatial(p, f) ==
    [p EXCEPT !.canvas = Canvas_scale(p.canvas, f),
              !.source_bin = SourceBin_scale_spatial(p.source_bin, f),
              !.timeline = Timeline_scale_spatial(p.timeline, f)]

Project_scale_temporal(p, f) ==
    [p EXCEPT !.timeline = Timeline_scale_temporal(p.timeline, f)]

\* Project.to_dict: the metadata keys, then the canvas keys, the source bin
\* and the timeline; no other key of the loaded document is written
Project_to_dict(p) ==
    ObjOf(<<E("title", p.metadata.title), E("description", p.metadata.description),
            E("author", p.metadata.author), E("version", p.metadata.version),
            E("editRate", p.metadata.edit_rate),
            E("targetLoudness", p.metadata.target_loudness),
            E("shouldApplyLoudnessNormalization",
              p.metadata.should_apply_loudness_normalization),
            E("audioFormatSampleRate", p.metadata.audio_format_sample_rate),
            Opt("allowSubFrameEditing", p.metadata.allow_sub_frame_editing),
            Opt("authoringClientName", p.metadata.authoring_client_name),
            E("width", p.canvas.width), E("height", p.canvas.height),
            E("videoFormatFrameRate", p.canvas.frame_rate),
            E("sourceBin", SourceBin_to_list(p.source_bin)),
            E("timeline", Timeline_to_dict(p.timeline))>>)

----------------------------------------------------------------------------
(* serialization/loader.py, serialization/saver.py and the pipelines *)

supported_versions == {W("4.0"), W("9.0")}

\* a version check that takes every declared version
is_supported_version_any(data) == IsDict(data)

\* is_supported_version(data)
is_supported_version(data) == DGet(data, "version", Str(<<>>)) \in supported_versions

\* ProjectLoader.validate_structure(data) returns a non-empty list
validation_errors(data) ==
    \/ ~IsDict(data)
    \/ /\ DGet(data, "version", W("unknown")) \in supported_versions
       /\ \E k \in {"version", "editRate", "width", "height"} : ~HasKey(data, k)
    \/ /\ HasKey(data, "sourceBin")
       /\ \/ ~IsList(Get(data, "sourceBin"))
          \/ \E i \in 1..Len(Get(data, "sourceBin").kv) :
                LET item == Get(data, "sourceBin").kv[i].v
                IN  ~IsDict(item) \/ ~HasKey(item, "id")
    \/ HasKey(data, "timeline") /\ ~IsDict(Get(data, "timeline"))

\* ProjectLoader.load_dict raises ValueError
load_raises(data, strict) ==
    strict /\ (validation_errors(data) \/ ~is_supported_version(data))

known_versions == supported_versions \cup {W("3.0"), W("2.0"), W("1.0"), W("unknown")}

\* the warnings of ProjectLoader.load_dict: those of the loader, of
\* detect_version and of Project.from_dict
load_dict_warnings(data, strict) ==
    LET invalid == validation_errors(data)
        version == DGet(data, "version", Str(<<>>))
    IN  (IF invalid THEN {"Project structure validation issues"} ELSE {})
        \cup
        (IF strict /\ invalid THEN {}
         ELSE (IF version \in known_versions THEN {} ELSE {"Unknown project version"})
              \cup
              (IF is_supported_version(data) THEN {}
               ELSE IF strict THEN {}
               ELSE {"Loading unsupported version"})
              \cup
              (IF load_raises(data, strict) THEN {}
               ELSE (IF HasKey(data, "width") /\ HasKey(data, "height") THEN {}
                     ELSE {"Missing width/height in project data, using defaults"})
                    \cup (IF IsList(DGet(data, "sourceBin", EmptyList)) THEN {}
                          ELSE {"Invalid sourceBin type"})
                    \cup (IF IsDict(DGet(data, "timeline", EmptyDict)) THEN {}
                          ELSE {"Invalid timeline type"})))

\* load_dict, Project.scale_spatial, Project.to_dict
typed_spatial(data, strict, f) ==
    IF load_raises(data, strict) THEN Err
    ELSE Project_to_dict(Project_scale_spatial(Project_from_dict(data), f))

\* load_dict, Project.scale_temporal, Project.to_dict
typed_temporal(data, strict, f) ==
    IF load_raises(data, strict) THEN Err
    ELSE Project_to_dict(Project_scale_temporal(Project_from_dict(data), f))

\* PropertyTransformer(TransformConfig(TEMPORAL, f, preserve)).transform_project:
\* preserve_audio_duration is logged, then project.scale_temporal(f) is returned
transform_project_temporal(project, f, preserve) == Project_scale_temporal(project, f)

\* DirectScaler.scale_file up to the tree it hands to json.dump
scale_file_tree(data, f) == scale_data(fix_special_values(data), f)

\* a file that holds text json.load rejects ("{ invalid json")
Corrupt == Node("text", 0, 1, <<"{", "invalid", "json">>, <<>>)

\* a decoder that takes any text
json_load_lenient(file) == IF file.t = "text" THEN Str(file.s) ELSE file

\* json.load(f): the decoded tree, or json.JSONDecodeError
json_load(file) == IF file.t = "text" THEN Err ELSE file

\* the tree a reader of the written text decodes: the text is that of the
\* preprocessed tree
written(tree) == preprocess(tree)

----------------------------------------------------------------------------
(* The documents the operations are run on *)

Vals == 0..MaxVal
Factors == {<<k, FactorDen>> : k \in 1..MaxFactorNum}
MediaTypes == {"VMFile", "AMFile", "IMFile", "Callout"}

\* a document whose timeline holds one track with the given media items
TimelineOf(medias) ==
    Obj(<<KV("id", I(1)),
          KV("sceneTrack",
             Obj(<<KV("scenes",
                      Arr(<<Obj(<<KV("csml",
                                     Obj(<<KV("tracks",
                                              Arr(<<Obj(<<KV("trackIndex", I(0)),
                                                          KV("medias", Arr(medias)),
                                                          KV("parameters", EmptyDict)>>)>>))>>))>>)>>))>>))>>)

Header(w, h) ==
    <<KV("title", W("demo")), KV("description", Str(<<>>)), KV("author", Str(<<>>)),
      KV("version", W("9.0")), KV("editRate", I(30)),
      KV("targetLoudness", R(-18, 1)),
      KV("shouldApplyLoudnessNormalization", Bool(TRUE)),
      KV("audioFormatSampleRate", I(44100)),
      KV("width", w), KV("height", h), KV("videoFormatFrameRate", I(30))>>

Keyframe(t, v) ==
    Obj(<<KV("endTime", I(t + 1)), KV("time", I(t)), KV("value", v),
          KV("duration", I(1))>>)

\* a media item of type ty with the four time fields and animated parameters
MediaItem(ty, s, d, ms, md, v) ==
    Obj(<<KV("id", I(1)), KV("_type", W(ty)), KV("src", I(1)),
          KV("trackNumber", I(0)),
          KV("start", s), KV("duration", d),
          KV("mediaStart", ms), KV("mediaDuration", md),
          KV("scalar", I(1)),
          KV("parameters",
             Obj(<<KV("translation0",
                      Obj(<<KV("type", W("double")), KV("defaultValue", I(v)),
                            KV("keyframes", Arr(<<Keyframe(v, I(v)),
                                                  Keyframe(v + 1, R(2 * v + 1, 2))>>))>>)),
                   KV("volume",
                      Obj(<<KV("type", W("double")), KV("defaultValue", R(1, 1)),
                            KV("keyframes", Arr(<<Keyframe(v, I(v + 1))>>))>>)),
                   KV("scale0", R(2 * v + 1, 2)),
                   KV("translation1", I(v))>>)),
          KV("customData", Obj(<<KV("deep", Obj(<<KV("note", I(v)),
                                                  KV("label", W("x"))>>))>>))>>
        \o (IF ty = "IMFile" THEN <<KV("trimStartSum", I(v))>> ELSE <<>>)
        \o (IF ty = "Callout"
              THEN <<KV("def", Obj(<<KV("kind", W("text")), KV("width", I(2 * v + 1)),
                                     KV("height", R(2 * v + 1, 2)),
                                     KV("corner-radius", I(v))>>))>>
              ELSE <<>>))

\* integer time fields: start v, duration 2v+1, mediaStart v, mediaDuration 2v+1
MediaDocInt(ty, v) ==
    Obj(Header(I(1920), I(1080))
        \o <<KV("customKey", W("keep")),
             KV("sourceBin", EmptyList),
             KV("timeline",
                TimelineOf(<<MediaItem(ty, I(v), I(2 * v + 1), I(v), I(2 * v + 1), v)>>))>>)

\* real time fields
MediaDocReal(ty, v) ==
    Obj(Header(R(1920, 1), R(1080, 1))
        \o <<KV("sourceBin", EmptyList),
             KV("timeline",
                TimelineOf(<<MediaItem(ty, R(2 * v + 1, 2), R(2 * v + 1, 4),
                                       R(v, 1), R(2 * v + 1, 4), v)>>))>>)

\* a video item whose start or duration is not finite
NonFiniteDoc(key, x) ==
    Obj(Header(I(1920), I(1080))
        \o <<KV("sourceBin", EmptyList),
             KV("timeline",
                TimelineOf(<<MediaItem("VMFile",
                                       IF key = "start" THEN x ELSE I(1),
                                       IF key = "duration" THEN x ELSE I(3),
                                       I(0), I(3), 1)>>))>>)

\* keyframe entries that hold an object, and an entry that is a list
NestedKeyframeDoc(v) ==
    Obj(<<KV("width", I(2 * v + 1)),
          KV("rect", Arr(<<I(0), I(0), I(v), I(v + 1)>>)),
          KV("parameters",
             Obj(<<KV("translation0",
                      Obj(<<KV("keyframes",
                               Arr(<<Obj(<<KV("time", I(v)), KV("value", I(v + 1)),
                                           KV("interp",
                                              Obj(<<KV("kind", W("linear")),
                                                    KV("points", Arr(<<I(v)>>))>>))>>),
                                     Arr(<<I(v), I(v + 1)>>)>>))>>))>>))>>)

\* the top-level fields a project is expected to hold
ExpectedFields == <<"width", "height", "editRate", "sourceBin", "timeline">>

ExpectedValue(k) ==
    CASE k = "width"     -> I(1280)
      [] k = "height"    -> I(720)
      [] k = "editRate"  -> I(30)
      [] k = "sourceBin" -> EmptyList
      [] OTHER           -> EmptyDict

\* the versions a document declares; "7.5" is no version the tool knows
DeclaredVersions == {"9.0", "4.0", "3.0", "2.0", "1.0", "7.5", "unknown"}

\* a document that declares the version (none when version is "") and
\* holds the expected fields but the missing ones
HeaderDoc(version, missing) ==
    LET Present(k) == k \notin missing
        kept == SelectSeq(ExpectedFields, Present)
    IN  Obj((IF version = "" THEN <<>> ELSE <<KV("version", W(version))>>)
            \o [i \in 1..Len(kept) |-> KV(kept[i], ExpectedValue(kept[i]))])

\* no field missing, one, or all of them
MissingSets ==
    {{}} \cup {{ExpectedFields[i]} : i \in 1..Len(ExpectedFields)}
    \cup {{ExpectedFields[i] : i \in 1..Len(ExpectedFields)}}

\* documents that hold other nodes than numbers under the classified keys:
\* a width that is a text at the root and nested, a rect with a null and a
\* text element, keyframe entries whose value is a text or null, a range of
\* two texts
LooseDocs ==
    {Obj(<<KV("width", W("auto")), KV("height", I(1080)),
           KV("canvas", Obj(<<KV("width", W("auto")), KV("height", I(3))>>))>>),
     Obj(<<KV("sourceBin",
              Arr(<<Obj(<<KV("id", I(1)),
                          KV("rect", Arr(<<I(0), I(0), Null, W("3")>>))>>)>>))>>),
     Obj(<<KV("parameters",
              Obj(<<KV("translation0",
                       Obj(<<KV("keyframes",
                                Arr(<<Obj(<<KV("time", I(1)), KV("value", W("ease"))>>),
                                      Obj(<<KV("time", I(2)), KV("value", Null)>>)>>))>>))>>))>>),
     Obj(<<KV("marker", Obj(<<KV("range", Arr(<<W("0"), W("10")>>))>>))>>)}

\* a document whose track holds two items that touch: the first of type a
\* runs from v to 3v+1, the second of type b starts at 3v+1
TwoItemDoc(a, b, v) ==
    Obj(Header(I(1920), I(1080))
        \o <<KV("sourceBin", EmptyList),
             KV("timeline",
                TimelineOf(<<MediaItem(a, I(v), I(2 * v + 1), I(0), I(2 * v + 1), v),
                             MediaItem(b, I(3 * v + 1), I(2), I(0), I(2), v)>>))>>)

\* a document where the special cases of the walkers meet: a wrapped {value}
\* object under a classified key that also holds a keyframe list, next to a
\* rect
OverlapDoc ==
    Obj(<<KV("parameters",
             Obj(<<KV("translation0",
                      Obj(<<KV("value", I(3)),
                            KV("keyframes",
                               Arr(<<Obj(<<KV("time", I(1)), KV("value", I(3))>>)>>))>>)),
                   KV("rect", Arr(<<I(0), I(1), I(3), R(3, 2)>>))>>))>>)

\* the audio item of the specification's scenario B
ScenarioB ==
    Obj(<<KV("timeline",
             TimelineOf(<<Obj(<<KV("_type", W("AMFile")), KV("start", I(100)),
                                KV("duration", I(200)), KV("mediaStart", I(0)),
                                KV("mediaDuration", I(200))>>)>>))>>)

\* the canvas of the specification's scenario A
ScenarioA == Obj(<<KV("width", I(1920)), KV("height", I(1080))>>)

\* the keyframes of the specification's scenario C
ScenarioC ==
    Obj(<<KV("parameters",
             Obj(<<KV("translation0",
                      Obj(<<KV("keyframes",
                               Arr(<<Obj(<<KV("time", I(0)), KV("value", I(100))>>),
                                     Obj(<<KV("time", I(100)), KV("value", I(200))>>)>>))>>))>>))>>)

\* the sample rate of a source track: an integer, a float, the text of a
\* fraction, a text that is no fraction
SampleRates(v) ==
    {I(44100), R(2 * v + 1, 2), Str(<<Digits[(v % 10) + 1], "/", "2">>),
     Str(<<"3", "0", "/", "1">>), Str(<<"1", "/", "0">>), Str(<<"n", "/", "a">>)}

\* a document with a source bin: one source item with one source track
SourceDoc(v, sr, lufs) ==
    Obj(Header(I(2 * v + 1), R(2 * v + 1, 2))
        \o <<KV("customKey", I(v)),
             KV("sourceBin",
                Arr(<<Obj(<<KV("id", I(1)), KV("src", W("a.mp4")),
                            KV("rect", Arr(<<I(0), I(0), I(2 * v + 1), R(2 * v + 1, 2)>>)),
                            KV("lastMod", W("t")),
                            KV("loudnessNormalization", Bool(TRUE)),
                            KV("sourceTracks",
                               Arr(<<Obj(<<KV("range", Arr(<<I(0), I(2 * v + 1)>>)),
                                           KV("type", I(2)), KV("editRate", I(30)),
                                           KV("trackRect",
                                              Arr(<<I(0), I(0), I(v), I(v + 1)>>)),
                                           KV("sampleRate", sr),
                                           KV("bitDepth", I(16)),
                                           KV("numChannels", I(2)),
                                           KV("integratedLUFS", lufs),
                                           KV("peakLevel", R(-(2 * v + 1), 2)),
                                           KV("metaData", Str(<<>>))>>)>>))>>)>>)),
             KV("timeline", TimelineOf(<<>>))>>)

Loudness == {R(-23, 1), NInf, Inf, NaN, MinFloat}

\* keyframe lists under owners of several kinds, directly and through an array
OwnerKeys == {"translation0", "opacity", "default-scale", "start", "heightAttr"}

KeyframeDoc(owner, v) ==
    Obj(<<KV("width", R(2 * v + 1, 2)),
          KV("extra", Arr(<<Inf, Arr(<<NaN, I(v)>>), Obj(<<KV("peak", NInf)>>)>>)),
          KV("parameters",
             Obj(<<KV(owner,
                      Obj(<<KV("keyframes",
                               Arr(<<Keyframe(v, I(2 * v + 1)),
                                     Keyframe(v + 1, R(2 * v + 1, 2))>>))>>)),
                   KV("volume", Obj(<<KV("keyframes", Arr(<<Keyframe(v, I(v + 1))>>))>>)),
                   KV("scale1", IF v = 0 THEN NInf ELSE MaxFloat),
                   KV("geometryCrop0", Obj(<<KV("value", I(2 * v + 1)),
                                             KV("note", I(v))>>)),
                   KV("list",
                      Arr(<<Obj(<<KV(owner,
                                     Arr(<<Obj(<<KV("keyframes",
                                                    Arr(<<Keyframe(v, I(v + 1))>>)),
                                                 KV("range", Arr(<<I(v), R(2 * v + 1, 2)>>))>>)>>))>>)>>))>>))>>)

Docs ==
    {MediaDocInt(ty, v) : ty \in MediaTypes, v \in Vals}
    \cup {MediaDocReal(ty, 1) : ty \in MediaTypes}
    \cup {ScenarioA, ScenarioB, ScenarioC}
    \cup UNION {{SourceDoc(v, sr, R(-23, 1)) : sr \in SampleRates(v)} : v \in Vals}
    \cup {SourceDoc(1, I(44100), l) : l \in Loudness}
    \cup {KeyframeDoc(o, v) : o \in OwnerKeys, v \in {0, MaxVal}}
    \cup {NestedKeyframeDoc(v) : v \in {1, MaxVal}}
    \cup LooseDocs
    \cup {OverlapDoc}
    \cup {TwoItemDoc(a, b, v) : a \in {"VMFile", "AMFile"}, b \in {"VMFile", "AMFile"},
                                v \in {1, MaxVal}}
    \cup {HeaderDoc(v, m) : v \in DeclaredVersions \cup {""}, m \in MissingSets}
    \cup {NonFiniteDoc(k, x) : k \in {"start", "duration"}, x \in {Inf, NInf, NaN}}

----------------------------------------------------------------------------
(* The operations *)

\* the media items of the first track of a document
MediasOf(d) ==
    LET tl     == DGet(d, "timeline", EmptyDict)
        scenes == DGet(DGet(tl, "sceneTrack", EmptyDict), "scenes", EmptyList)
        tracks == IF scenes.kv = <<>> THEN EmptyList
                  ELSE DGet(DGet(scenes.kv[1].v, "csml", EmptyDict), "tracks", EmptyList)
    IN  IF tracks.kv = <<>> THEN <<>>
        ELSE Elems(DGet(tracks.kv[1].v, "medias", EmptyList))

\* what the file at the output path holds before a command runs
OldText == <<Tok("scalar", W("previous output"))>>

\* the input file of a command: the text of the document, or a corrupted one
Files(d) == {d, Corrupt}

\* an input path at which there is no file
Absent == Node("absent", 0, 1, <<>>, <<>>)

\* what the input path of a command leads to
Paths_in(d) == Files(d) \cup {Absent}

\* the scale argument of a command, as scale / 100: the factors, zero and a
\* negative one
Scales == Factors \cup {<<0, FactorDen>>, <<-1, FactorDen>>}

Init ==
    /\ doc \in Docs
    /\ input = doc
    /\ factor = <<1, 1>>
    /\ op = "none"
    /\ flag = TRUE
    /\ result = doc
    /\ emitted = <<>>
    /\ loaded = doc
    /\ transformed = doc
    /\ log = {}
    /\ dest = OldText
    /\ raised = "none"
    /\ steps = <<>>
    /\ second = <<1, 1>>
    /\ models = <<>>

\* an operation on a tree in memory: it returns a tree and writes nothing
Call(name, arg, f, preserve, tree, warnings) ==
    /\ op = "none"
    /\ op' = name
    /\ input' = arg
    /\ factor' = f
    /\ flag' = preserve
    /\ result' = tree
    /\ emitted' = <<>>
    /\ loaded' = arg
    /\ transformed' = tree
    /\ log' = warnings
    /\ raised' = IF HasErr(tree) THEN "Error" ELSE "none"
    /\ steps' = <<>>
    /\ second' = <<1, 1>>
    /\ models' = <<>>
    /\ UNCHANGED <<doc, dest>>

\* PropertyTransformer(TransformConfig(SPATIAL, f)).transform_dict(doc)
TransformDictSpatial ==
    \E f \in Factors :
      Call("transform_dict_spatial", doc, f, TRUE, transform_dict_spatial(doc, f), {})

\* PropertyTransformer(TransformConfig(TEMPORAL, f, preserve)).transform_dict(doc)
TransformDictTemporal ==
    \E f \in Factors, preserve \in BOOLEAN :
      Call("transform_dict_temporal", doc, f, preserve,
           transform_dict_temporal(doc, f, preserve), {})

\* DirectScaler(f).scale_data(doc)
ScaleData ==
    \E f \in Factors : Call("scale_data", doc, f, TRUE, scale_data(doc, f), {})

\* ProjectLoader().load_dict(doc).scale_spatial(f).to_dict()
TypedSpatial ==
    \E f \in Factors :
      Call("typed_spatial", doc, f, TRUE, typed_spatial(doc, FALSE, f),
           load_dict_warnings(doc, FALSE))

\* ProjectLoader().load_dict(doc).scale_temporal(f).to_dict()
TypedTemporal ==
    \E f \in Factors :
      Call("typed_temporal", doc, f, TRUE, typed_temporal(doc, FALSE, f),
           load_dict_warnings(doc, FALSE))

\* create_media_from_dict(item).scale_temporal(f).to_dict() for a media item
MediaScaleTemporal ==
    \E f \in Factors, i \in 1..Len(MediasOf(doc)) :
      Call("media_scale_temporal", MediasOf(doc)[i], f, TRUE,
           Media_to_dict(Media_scale_temporal(
               create_media_from_dict(MediasOf(doc)[i]), f)), {})

\* the tracks of the first scene of a document
TracksOf(d) ==
    LET tl     == DGet(d, "timeline", EmptyDict)
        scenes == DGet(DGet(tl, "sceneTrack", EmptyDict), "scenes", EmptyList)
    IN  IF ~IsList(scenes) \/ scenes.kv = <<>> THEN <<>>
        ELSE ListOf(DGet(DGet(scenes.kv[1].v, "csml", EmptyDict), "tracks", EmptyList))

\* the Track that Timeline.from_dict builds from a track dictionary,
\* then scale_temporal(f).to_dict()
TrackScaleTemporal ==
    \E f \in Factors, i \in 1..Len(TracksOf(doc)) :
      Call("track_scale_temporal", TracksOf(doc)[i], f, TRUE,
           Track_to_dict(Track_scale_temporal(Track_from_dict(TracksOf(doc)[i]), f)),
           {})

\* DirectScaler(1)._fix_special_values(doc)
FixSpecialValues ==
    Call("fix_special_values", doc, <<1, 1>>, TRUE, fix_special_values(doc), {})

\* CamtasiaJSONEncoder()._preprocess(doc)
Preprocess ==
    Call("preprocess", doc, <<1, 1>>, TRUE, preprocess(doc),
         preprocess_warnings(doc))

\* PropertyTransformer(TransformConfig(TEMPORAL, f, preserve)).transform_project
\* of the loaded project; the project and the result are shown by their to_dict()
TransformProjectTemporal ==
    \E f \in Factors, preserve \in BOOLEAN :
      LET project == Project_from_dict(doc)
      IN  Call("transform_project_temporal", Project_to_dict(project), f, preserve,
               Project_to_dict(transform_project_temporal(project, f, preserve)), {})

\* ProjectLoader(strict_version_check=strict).load_dict(doc).to_dict()
LoadDict ==
    \E strict \in BOOLEAN :
      LET tree == IF load_raises(doc, strict) THEN Err
                  ELSE Project_to_dict(Project_from_dict(doc))
      IN  /\ op = "none"
          /\ op' = "load_dict"
          /\ input' = doc
          /\ factor' = <<1, 1>>
          /\ flag' = strict
          /\ result' = tree
          /\ emitted' = <<>>
          /\ loaded' = doc
          /\ transformed' = tree
          /\ log' = load_dict_warnings(doc, strict)
          /\ raised' = IF load_raises(doc, strict) THEN "ValueError"
                        ELSE IF HasErr(tree) THEN "Error" ELSE "none"
          /\ steps' = <<>>
          /\ second' = <<1, 1>>
    /\ models' = <<>>
          /\ UNCHANGED <<doc, dest>>

\* The calls again, on a tree whose dicts and lists are the caller's objects.

TransformDictSpatialOnObjects ==
    \E f \in Factors :
      Call("objects_transform_dict_spatial", Label(doc), f, TRUE,
           transform_dict_spatial(Label(doc), f), {})

TransformDictTemporalOnObjects ==
    \E f \in Factors :
      Call("objects_transform_dict_temporal", Label(doc), f, TRUE,
           transform_dict_temporal(Label(doc), f, TRUE), {})

ScaleDataOnObjects ==
    \E f \in Factors :
      Call("objects_scale_data", Label(doc), f, TRUE, scale_data(Label(doc), f), {})

\* project.scale_spatial(f) for the project loaded from the caller's tree;
\* the project and its scaled copy are shown by their to_dict()
ProjectScaleSpatial ==
    \E f \in Factors :
      LET project == Project_from_dict(Label(doc))
      IN  Call("project_scale_spatial", Project_to_dict(project), f, TRUE,
               Project_to_dict(Project_scale_spatial(project, f)), {})

\* project.scale_temporal(f), likewise
ProjectScaleTemporal ==
    \E f \in Factors :
      LET project == Project_from_dict(Label(doc))
      IN  Call("project_scale_temporal", Project_to_dict(project), f, TRUE,
               Project_to_dict(Project_scale_temporal(project, f)), {})

\* what a command observes of a run up to the tree it hands to json.dump
Command(name, arg, f, given, tree, warnings) ==
    /\ op' = name
    /\ input' = arg
    /\ factor' = f
    /\ flag' = TRUE
    /\ result' = IF HasErr(tree) THEN tree ELSE written(tree)
    /\ emitted' = IF HasErr(tree) THEN <<>> ELSE encode(tree)
    /\ loaded' = given
    /\ transformed' = tree
    /\ log' = warnings \cup (IF HasErr(tree) THEN {} ELSE preprocess_warnings(tree))
    /\ second' = <<1, 1>>
    /\ models' = <<>>
    /\ UNCHANGED doc

\* the chunks of the text that reach the file: all of them, or, when a
\* write raises OSError, the first few
WritePoints(text) ==
    {Len(text)} \cup {n \in 0..MaxPartial : n < Len(text)}

\* the end of a command on files.  ran: the steps up to the tree handed to
\* json.dump, the failing one last when one raised kind.  The output path
\* is opened with open(path, "w") once those steps are through, and
\* json.dump writes the text chunk by chunk.
SaveTo(ran, tree, kind) ==
    IF HasErr(tree)
      THEN /\ dest' = OldText
           /\ raised' = kind
           /\ steps' = ran
      ELSE \E n \in WritePoints(encode(tree)) :
             /\ dest' = SubSeq(encode(tree), 1, n)
             /\ raised' = IF n < Len(encode(tree)) THEN "OSError" ELSE "none"
             /\ steps' = ran \o <<"open", "write">>

\* an operation that returns its text and opens no file
NoFile(tree) ==
    /\ raised' = IF HasErr(tree) THEN "Error" ELSE "none"
    /\ steps' = <<>>
    /\ UNCHANGED dest

\* DirectScaler.scale_file(input_path, output_path)
ScaleFile(name, file, f) ==
    LET data == json_load(file)
        tree == IF HasErr(data) THEN data ELSE scale_file_tree(data, f)
    IN  /\ Command(name, file, f,
                   IF HasErr(data) THEN file ELSE fix_special_values(data), tree, {})
        /\ SaveTo(IF HasErr(data) THEN <<"decode">>
                  ELSE <<"decode", "sanitize", "transform">>,
                  tree,
                  IF HasErr(data) THEN "JSONDecodeError" ELSE "TransformError")

\* load_file, transform_project and save_file, as xyscale and timescale run
\* them; typed is typed_spatial or typed_temporal
LoadTransformSave(name, file, f, tree) ==
    LET data == json_load(file)
        project == IF HasErr(data) THEN data
                   ELSE Project_to_dict(Project_from_dict(data))
    IN  /\ Command(name, file, f, IF HasErr(data) THEN file ELSE data,
                   IF HasErr(data) THEN data ELSE tree,
                   IF HasErr(data) THEN {} ELSE load_dict_warnings(data, FALSE))
        /\ SaveTo(IF HasErr(data) THEN <<"decode">>
                  ELSE IF HasErr(project) THEN <<"decode", "load">>
                  ELSE <<"decode", "load", "transform">>,
                  IF HasErr(data) THEN data ELSE tree,
                  IF HasErr(data) THEN "JSONDecodeError"
                  ELSE IF HasErr(project) THEN "LoadError"
                  ELSE "TransformError")

\* a validation that looks at the input path only
rejection_of_path_only(file, f) ==
    IF file = Absent THEN "Input file does not exist" ELSE ""

\* the validation xyscale and timescale start with: the message printed
\* when the command returns at once, "" when it goes on
rejection(file, f) ==
    IF file = Absent THEN "Input file does not exist"
    ELSE IF f[1] <= 0 THEN "Scale factor must be positive"
    ELSE ""

\* the command printed the error and returned
Rejected(name, file, f) ==
    /\ op' = name
    /\ input' = file
    /\ factor' = f
    /\ flag' = TRUE
    /\ result' = Null
    /\ emitted' = <<>>
    /\ loaded' = file
    /\ transformed' = Null
    /\ log' = {rejection(file, f)}
    /\ raised' = "none"
    /\ steps' = <<>>
    /\ dest' = OldText
    /\ second' = <<1, 1>>
    /\ models' = <<>>
    /\ UNCHANGED doc

\* xyscale(input, scale, direct=True): DirectScaler.scale_file
XYScaleDirect ==
    /\ op = "none"
    /\ \E f \in Scales, file \in Paths_in(doc) :
         IF rejection(file, f) # "" THEN Rejected("xyscale_direct", file, f)
         ELSE ScaleFile("xyscale_direct", file, f)

\* xyscale(input, scale, direct=False): load_file, transform_project, save_file
XYScaleTyped ==
    /\ op = "none"
    /\ \E f \in Scales, file \in Paths_in(doc) :
         IF rejection(file, f) # "" THEN Rejected("xyscale_typed", file, f)
         ELSE LoadTransformSave("xyscale_typed", file, f,
                                typed_spatial(json_load(file), FALSE, f))

\* timescale(input, scale), on the input file or on the file an xyscale wrote
TimeScale ==
    \/ /\ op = "none"
       /\ \E f \in Scales, file \in Paths_in(doc) :
            IF rejection(file, f) # "" THEN Rejected("timescale", file, f)
            ELSE LoadTransformSave("timescale", file, f,
                                   typed_temporal(json_load(file), FALSE, f))
    \/ /\ op \in {"xyscale_direct", "xyscale_typed"}
       /\ raised = "none"
       /\ steps # <<>>
       /\ \E f \in Scales :
            IF rejection(result, f) # "" THEN Rejected("xyscale_timescale", result, f)
            ELSE LoadTransformSave("xyscale_timescale", result, f,
                                   typed_temporal(result, FALSE, f))

\* ProjectSaver().save_dict(doc, path)
SaveDict ==
    /\ op = "none"
    /\ Command("save_dict", doc, <<1, 1>>, doc, doc, {})
    /\ SaveTo(<<>>, doc, "Error")

\* ProjectSaver().to_json_string(ProjectLoader().load_dict(doc))
ToJsonString ==
    /\ op = "none"
    /\ Command("to_json_string", doc, <<1, 1>>, doc,
            Project_to_dict(Project_from_dict(doc)), load_dict_warnings(doc, FALSE))
    /\ NoFile(Project_to_dict(Project_from_dict(doc)))

\* A typed model serialised and read back.

RoundTrip(name, tree, m, m2) ==
    /\ op = "none"
    /\ ~HasErr(tree)
    /\ op' = name
    /\ input' = doc
    /\ factor' = <<1, 1>>
    /\ flag' = TRUE
    /\ loaded' = doc
    /\ transformed' = tree
    /\ result' = tree
    /\ emitted' = <<>>
    /\ log' = {}
    /\ raised' = "none"
    /\ steps' = <<>>
    /\ second' = <<1, 1>>
    /\ models' = <<m, m2>>
    /\ UNCHANGED <<doc, dest>>

\* Project.from_dict(p.to_dict()) for the project p loaded from the document
ProjectRoundTrip ==
    LET p == Project_from_dict(doc)
    IN  RoundTrip("project_round_trip", Project_to_dict(p), p,
                  Project_from_dict(Project_to_dict(p)))

\* ProjectSaver().save_file(p, path), then ProjectLoader().load_file(path)
SaveLoadRoundTrip ==
    LET p == Project_from_dict(doc)
    IN  RoundTrip("save_load_round_trip", written(Project_to_dict(p)), p,
                  Project_from_dict(json_load(written(Project_to_dict(p)))))

\* Canvas.from_dict(c.to_dict()) for the canvas of the loaded project
CanvasRoundTrip ==
    LET c == Canvas_from_dict(doc)
        d == Obj(<<KV("width", c.width), KV("height", c.height),
                   KV("videoFormatFrameRate", c.frame_rate)>>)
    IN  RoundTrip("canvas_round_trip", d, c, Canvas_from_dict(d))

\* the source tracks the document describes
SourceTracks(d) ==
    LET bin == DGet(d, "sourceBin", EmptyList)
    IN  IF IsList(bin) /\ bin.kv # <<>> /\ IsDict(bin.kv[1].v)
          THEN LET ts == DGet(bin.kv[1].v, "sourceTracks", EmptyList)
               IN  IF IsList(ts) THEN Elems(ts) ELSE <<>>
          ELSE <<>>

\* SourceTrack.from_dict(t.to_dict()) for a track t built from its values
SourceTrackRoundTrip ==
    \E i \in 1..Len(SourceTracks(doc)) :
      LET t == SourceTrack_new(SourceTracks(doc)[i])
      IN  RoundTrip("source_track_round_trip", SourceTrack_to_dict(t), t,
                    SourceTrack_from_dict(SourceTrack_to_dict(t)))

\* Two passes in a row: the tree of the first is handed to the second.

FirstFactors == Factors \cup {<<1, MaxUpscale>>}
SecondFactors(f) == Factors \cup {<<f[2], f[1]>>, <<MaxUpscale, 1>>}

Twice(name, f, g, mid, tree) ==
    /\ op = "none"
    /\ op' = name
    /\ input' = doc
    /\ factor' = f
    /\ second' = g
    /\ models' = <<>>
    /\ flag' = TRUE
    /\ loaded' = doc
    /\ transformed' = mid
    /\ result' = IF HasErr(mid) THEN mid ELSE tree
    /\ emitted' = <<>>
    /\ log' = {}
    /\ raised' = IF HasErr(mid) \/ HasErr(tree) THEN "Error" ELSE "none"
    /\ steps' = <<>>
    /\ UNCHANGED <<doc, dest>>

\* DirectScaler(g).scale_data(DirectScaler(f).scale_data(doc))
ScaleDataTwice ==
    \E f \in FirstFactors : \E g \in SecondFactors(f) :
      Twice("scale_data_twice", f, g, scale_data(doc, f),
            scale_data(scale_data(doc, f), g))

\* transform_dict of the Spatial pass with f, then with g
TransformDictSpatialTwice ==
    \E f \in FirstFactors : \E g \in SecondFactors(f) :
      Twice("transform_dict_spatial_twice", f, g, transform_dict_spatial(doc, f),
            transform_dict_spatial(transform_dict_spatial(doc, f), g))

\* transform_dict of the Temporal pass with f, then with 1 / f
TransformDictTemporalTwice ==
    \E f \in FirstFactors :
      Twice("transform_dict_temporal_twice", f, <<f[2], f[1]>>,
            transform_dict_temporal(doc, f, TRUE),
            transform_dict_temporal(transform_dict_temporal(doc, f, TRUE),
                                    <<f[2], f[1]>>, TRUE))

NextTwice ==
    \/ ScaleDataTwice
    \/ TransformDictSpatialTwice
    \/ TransformDictTemporalTwice

SpecTwice == Init /\ [][NextTwice]_vars

Next ==
    \/ TransformDictSpatial
    \/ TransformDictTemporal
    \/ ScaleData
    \/ TypedSpatial
    \/ TypedTemporal
    \/ MediaScaleTemporal
    \/ TrackScaleTemporal
    \/ FixSpecialValues
    \/ LoadDict
    \/ TransformProjectTemporal
    \/ ProjectRoundTrip
    \/ SaveLoadRoundTrip
    \/ CanvasRoundTrip
    \/ SourceTrackRoundTrip
    \/ TransformDictSpatialOnObjects
    \/ TransformDictTemporalOnObjects
    \/ ScaleDataOnObjects
    \/ ProjectScaleSpatial
    \/ ProjectScaleTemporal
    \/ Preprocess
    \/ XYScaleDirect
    \/ XYScaleTyped
    \/ TimeScale
    \/ SaveDict
    \/ ToJsonString

Spec == Init /\ [][Next]_vars

----------------------------------------------------------------------------
(* Reading trees by position *)

RECURSIVE Paths(_)
\* the positions of the nodes of a tree: the sequences of entry indices
Paths(x) ==
    {<<>>} \cup UNION {{<<i>> \o p : p \in Paths(x.kv[i].v)} : i \in 1..Len(x.kv)}

RECURSIVE At(_, _)
\* the node at a position
At(x, p) == IF p = <<>> THEN x ELSE At(x.kv[Head(p)].v, Tail(p))

RECURSIVE OwnerFrom(_, _, _)
OwnerFrom(x, p, cur) ==
    IF p = <<>> THEN cur
    ELSE OwnerFrom(x.kv[Head(p)].v, Tail(p), IF IsDict(x) THEN x.kv[Head(p)].k ELSE cur)

\* the key a node is held under: that of the nearest enclosing object entry,
\* carried through arrays; NoKey for the root
OwnerKey(x, p) == OwnerFrom(x, p, NoKey)

Front(p) == SubSeq(p, 1, Len(p) - 1)
IsLeaf(x) == ~IsDict(x) /\ ~IsList(x)
LeafPaths(x) == {p \in Paths(x) : IsLeaf(At(x, p))}

RECURSIVE SameShape(_, _)
\* the same objects with the same keys in the same order and the same arrays
\* of the same lengths, whatever the leaves hold
SameShape(x, y) ==
    IF IsDict(x) \/ IsList(x)
      THEN /\ y.t = x.t
           /\ Keys(y) = Keys(x)
           /\ \A i \in 1..Len(x.kv) : SameShape(x.kv[i].v, y.kv[i].v)
      ELSE IsLeaf(y)

\* out is an integer less than one away from x * f
NearProduct(out, x, f) ==
    /\ out.t = "int"
    /\ x.t \in {"int", "real"}
    /\ Abs(out.n * x.d * f[2] - x.n * f[1]) < x.d * f[2]

\* out is the integer nearest to x * f, the even one of the two when x * f
\* lies half way
IsRoundHalfEven(out, x, f) ==
    /\ out.t = "int"
    /\ LET twice == 2 * Abs(out.n * x.d * f[2] - x.n * f[1])
       IN  \/ twice < x.d * f[2]
           \/ twice = x.d * f[2] /\ out.n % 2 = 0

\* out is the float x * f
IsRealProduct(out, x, f) ==
    /\ out.t = "real"
    /\ out.n * x.d * f[2] = x.n * f[1] * out.d

Done(name) == op = name /\ ~HasErr(result)

----------------------------------------------------------------------------
(* Claims *)

\* C1: under the Temporal pass with preserve_audio_duration on, every media
\* item of type AMFile keeps its duration, mediaStart and mediaDuration and
\* has only its start scaled by the factor, in transform_dict and in
\* AudioMedia.scale_temporal alike.
AudioItemKept(in, out, f) ==
    (IsDict(in) /\ GetOr(in, "_type", Null) = AMFile) =>
      /\ \A k \in {"duration", "mediaStart", "mediaDuration"} :
            HasKey(in, k) => HasKey(out, k) /\ Get(out, k) = Get(in, k)
      /\ HasKey(in, "start") =>
            HasKey(out, "start") /\ NearProduct(Get(out, "start"), Get(in, "start"), f)

C1_AudioDurationPreserved ==
    /\ (Done("transform_dict_temporal") /\ flag) =>
          \A i \in 1..Len(MediasOf(input)) :
             AudioItemKept(MediasOf(input)[i], MediasOf(result)[i], factor)
    /\ Done("media_scale_temporal") => AudioItemKept(input, result, factor)

C1_Witness ==
    /\ Done("transform_dict_temporal") /\ flag
    /\ doc = ScenarioB
    /\ factor[1] = 2 * factor[2]
    /\ LET m == MediasOf(result)[1]
       IN  /\ Get(m, "start") = I(200)
           /\ Get(m, "duration") = I(200)
           /\ Get(m, "mediaStart") = I(0)
           /\ Get(m, "mediaDuration") = I(200)

\* The key sets the passes are specified by.
TemporalKeys ==
    {"start", "duration", "mediaStart", "mediaDuration", "trimStartSum",
     "time", "endTime", "range"}

SpatialKeys ==
    {"width", "height", "translation0", "translation1", "translation2",
     "scale0", "scale1", "scale2",
     "geometryCrop0", "geometryCrop1", "geometryCrop2", "geometryCrop3",
     "corner-radius", "stroke-width", "widthAttr", "heightAttr",
     "rect", "trackRect"}

\* the leaf at p is the "value" field of an entry of a "keyframes" list
IsKeyframeValue(x, p) ==
    /\ Len(p) >= 3
    /\ IsDict(At(x, Front(p)))
    /\ At(x, Front(p)).kv[p[Len(p)]].k = "value"
    /\ IsList(At(x, Front(Front(p))))
    /\ OwnerKey(x, Front(Front(p))) = "keyframes"

\* the leaves of x at the positions in ps are the same in y
SameAt(x, y, ps) == \A p \in ps : p \in Paths(y) /\ At(y, p) = At(x, p)

\* C2: transform_dict changes only leaves of its own category: the Spatial
\* pass returns every leaf held under a temporal key (range included) as it
\* was, and the Temporal pass returns every leaf held under a spatial key
\* (rect and trackRect included) and every keyframe "value" as it was.
\* A leaf is held under the key of the nearest object entry above it.
C2_OtherCategoryUntouched ==
    /\ Done("transform_dict_spatial") =>
          SameAt(input, result,
                 {p \in LeafPaths(input) : OwnerKey(input, p) \in TemporalKeys})
    /\ Done("transform_dict_temporal") =>
          SameAt(input, result,
                 {p \in LeafPaths(input) :
                     OwnerKey(input, p) \in SpatialKeys \/ IsKeyframeValue(input, p)})

\* a Temporal pass that changes the document and meets spatial leaves and
\* keyframe values other than zero, under a factor other than one
C2_Witness ==
    /\ Done("transform_dict_temporal")
    /\ factor[1] # factor[2]
    /\ result # input
    /\ \E p \in LeafPaths(input) :
          /\ OwnerKey(input, p) \in SpatialKeys
          /\ IsNumber(At(input, p)) /\ At(input, p).n # 0
    /\ \E p \in LeafPaths(input) :
          /\ IsKeyframeValue(input, p)
          /\ IsNumber(At(input, p)) /\ At(input, p).n # 0

\* C3: a document with an unrecognized top-level key and a deeply nested
\* unrecognized object still has both, with equal values, after xyscale
\* followed by timescale.
C3_UnknownFieldsSurvive ==
    Done("xyscale_timescale") =>
      /\ HasKey(doc, "customKey") =>
            HasKey(result, "customKey")
            /\ Get(result, "customKey") = Get(doc, "customKey")
      /\ \A i \in 1..Len(MediasOf(doc)) :
            HasKey(MediasOf(doc)[i], "customData") =>
              /\ Len(MediasOf(result)) >= i
              /\ HasKey(MediasOf(result)[i], "customData")
              /\ Get(MediasOf(result)[i], "customData")
                    = Get(MediasOf(doc)[i], "customData")

\* the numeric leaves a pass is specified to scale
Classified(pass, x, p) ==
    /\ IsNumber(At(x, p))
    /\ IF pass = "transform_dict_spatial"
         THEN OwnerKey(x, p) \in SpatialKeys \/ IsKeyframeValue(x, p)
         ELSE OwnerKey(x, p) \in TemporalKeys

\* C4: for both passes of transform_dict the output has, at every depth, the
\* input's keys in the input's order and arrays of the input's lengths, and
\* differs from the input only in classified numeric leaves.
C4_ShapePreserved ==
    \A pass \in {"transform_dict_spatial", "transform_dict_temporal"} :
      Done(pass) =>
        /\ SameShape(input, result)
        /\ SameAt(input, result,
                  {p \in LeafPaths(input) : ~Classified(pass, input, p)})

\* a pass over nested objects and arrays that changed some leaf
C4_Witness ==
    /\ Done("transform_dict_spatial")
    /\ result # input
    /\ \E p \in LeafPaths(input) :
          /\ Len(p) >= 6
          /\ \E i \in 1..Len(p) : IsList(At(input, SubSeq(p, 1, i)))
          /\ ~Classified("transform_dict_spatial", input, p)

\* the positions of the "keyframes" lists of a tree
KeyframeLists(x) ==
    {p \in Paths(x) : /\ Len(p) >= 1
                      /\ IsDict(At(x, Front(p)))
                      /\ At(x, Front(p)).kv[p[Len(p)]].k = "keyframes"
                      /\ IsList(At(x, p))}

\* the key of the property that owns the list at p: the nearest object key
\* above "keyframes", carried through arrays
ListOwner(x, p) == OwnerKey(x, Front(p))

\* out is x multiplied by f, as a float or as the nearest integer
IsProduct(out, x, f) == IsRealProduct(out, x, f) \/ IsRoundHalfEven(out, x, f)

KeyframesScaledByOwner(in, out, f, spatial) ==
    \A p \in KeyframeLists(in) :
      \A i \in 1..Len(At(in, p).kv) :
        LET e == At(in, p).kv[i].v
            o == At(out, p \o <<i>>)
        IN  IsDict(e) =>
              /\ (HasKey(e, "value") /\ IsNumber(Get(e, "value"))) =>
                    IF ListOwner(in, p) \in spatial
                      THEN IsProduct(Get(o, "value"), Get(e, "value"), f)
                      ELSE Get(o, "value") = Get(e, "value")
              /\ \A k \in {"time", "endTime", "duration"} :
                    HasKey(e, k) => Get(o, k) = Get(e, k)

\* C5: in the Spatial pass the "value" of each entry of a "keyframes" list
\* is multiplied by the factor exactly when the key of the property owning
\* the list is a spatial key of the implementation (transform_dict and
\* DirectScaler each with its own key set); a list owned by any other
\* property keeps its values, and the time fields of the entries never change.
C5_KeyframesFollowOwner ==
    /\ Done("transform_dict_spatial") =>
          KeyframesScaledByOwner(input, result, factor, scale_properties)
    /\ Done("scale_data") =>
          KeyframesScaledByOwner(input, result, factor, direct_scale_properties)

\* one document holds a list owned by a spatial key through an array and a
\* list owned by none, and the first was scaled by a factor other than one
C5_Witness ==
    /\ Done("transform_dict_spatial")
    /\ factor[1] # factor[2]
    /\ \E p \in KeyframeLists(input) :
          /\ ListOwner(input, p) \in scale_properties
          /\ IsList(At(input, Front(Front(p))))
          /\ \E i \in 1..Len(At(input, p).kv) :
                Get(At(result, p \o <<i>>), "value") # Get(At(input, p).kv[i].v, "value")
    /\ \E p \in KeyframeLists(input) :
          /\ ListOwner(input, p) \notin scale_properties
          /\ \E i \in 1..Len(At(input, p).kv) :
                Get(At(input, p).kv[i].v, "value").n # 0

\* the source tracks of the first source item
SourceTracksOf(d) ==
    LET bin == DGet(d, "sourceBin", EmptyList)
    IN  IF ~IsList(bin) \/ bin.kv = <<>> THEN <<>>
        ELSE Elems(DGet(bin.kv[1].v, "sourceTracks", EmptyList))

\* C6: the values under sampleRate, integratedLUFS and peakLevel come out
\* as they went in, for both passes, through DirectScaler.scale_data,
\* transform_dict and the typed path, a fraction-string sampleRate included.
C6_AudioMetadataKept ==
    \A name \in {"scale_data", "transform_dict_spatial", "transform_dict_temporal",
                 "typed_spatial", "typed_temporal"} :
      Done(name) =>
        \A i \in 1..Len(SourceTracksOf(input)) :
          \A k \in {"sampleRate", "integratedLUFS", "peakLevel"} :
            HasKey(SourceTracksOf(input)[i], k) =>
              /\ Len(SourceTracksOf(result)) >= i
              /\ HasKey(SourceTracksOf(result)[i], k)
              /\ Get(SourceTracksOf(result)[i], k) = Get(SourceTracksOf(input)[i], k)

\* the leaves DirectScaler is specified to scale: root width and height,
\* scalars under a spatial key below the root, elements of a four-element
\* rect or trackRect, values of keyframes owned by a spatial key, and the
\* "value" of an object held under a spatial key
DirectClassified(x, p) ==
    LET key == OwnerKey(x, p)
        up  == At(x, Front(p))
    IN  /\ Len(p) >= 1
        /\ At(x, p).t \in {"int", "real"}
        /\ \/ Len(p) = 1 /\ key \in {"width", "height"}
           \/ Len(p) >= 2 /\ IsDict(up) /\ key \in direct_scale_properties
           \/ /\ Len(p) >= 3 /\ IsList(up) /\ Len(up.kv) = 4
              /\ key \in {"rect", "trackRect"}
              /\ IsDict(At(x, Front(Front(p))))
           \/ /\ IsKeyframeValue(x, p)
              /\ Len(p) >= 4
              /\ ListOwner(x, Front(Front(p))) \in direct_scale_properties
           \/ /\ Len(p) >= 3 /\ IsDict(up) /\ key = "value"
              /\ IsDict(At(x, Front(Front(p))))
              /\ OwnerKey(x, Front(p)) \in direct_scale_properties

\* C7: DirectScaler.scale_data turns every classified spatial leaf v into
\* the integer nearest to v*f (the even one at a tie) when v is an integer
\* and into the real v*f when v is a real.
C7_DirectScalerKeepsType ==
    Done("scale_data") =>
      \A p \in LeafPaths(input) :
        DirectClassified(input, p) =>
          IF At(input, p).t = "int"
            THEN IsRoundHalfEven(At(result, p), At(input, p), factor)
            ELSE IsRealProduct(At(result, p), At(input, p), factor)

\* the canvas 1920 x 1080 at factor 1.5 comes out as the integers 2880, 1620
C7_Witness ==
    /\ Done("scale_data")
    /\ input = ScenarioA
    /\ 2 * factor[1] = 3 * factor[2]
    /\ Get(result, "width") = I(2880)
    /\ Get(result, "height") = I(1620)

\* C8: every leaf the Spatial pass of transform_dict scales (classified
\* scalar keys, rect and trackRect elements, keyframe values) keeps its
\* numeric type: an integer comes out an integer and a real a real.
C8_SpatialKeepsType ==
    Done("transform_dict_spatial") =>
      \A p \in LeafPaths(input) :
        Classified("transform_dict_spatial", input, p) =>
          At(result, p).t = At(input, p).t

TemporalScalars ==
    {"start", "duration", "mediaStart", "mediaDuration", "trimStartSum",
     "time", "endTime"}

\* out is v as the Temporal pass is specified to scale it, or v itself
\* where the pass is specified to pass it through
ScaledOrKept(out, v, f) ==
    \/ out = v
    \/ v.t = "int" /\ IsRoundHalfEven(out, v, f)
    \/ v.t = "real" /\ IsRealProduct(out, v, f)

\* C9: every temporal scalar the Temporal pass scales comes out as the
\* integer nearest to v*f (the even one at a tie) when v is an integer and
\* as the real v*f when v is a real, in transform_dict and in the typed
\* Media.scale_temporal methods.
C9_TemporalRounding ==
    /\ Done("transform_dict_temporal") =>
          \A p \in LeafPaths(input) :
            (OwnerKey(input, p) \in TemporalScalars /\ At(input, p).t \in {"int", "real"})
              => ScaledOrKept(At(result, p), At(input, p), factor)
    /\ Done("media_scale_temporal") =>
          \A k \in TemporalScalars :
            (HasKey(input, k) /\ Get(input, k).t \in {"int", "real"})
              => HasKey(result, k) /\ ScaledOrKept(Get(result, k), Get(input, k), factor)

Words == {"NaN", "Infinity", "-Infinity"}

\* C10: no JSON text emitted by DirectScaler.scale_file, ProjectSaver.save_file,
\* save_dict or to_json_string holds NaN, Infinity or -Infinity, whatever
\* non-finite values the tree holds and however deep they sit.
C10_NoNonFiniteEmitted ==
    \A i \in 1..Len(emitted) : emitted[i].tok \notin Words

\* save_dict wrote a tree that holds a non-finite value inside an array
\* inside an array
C10_Witness ==
    /\ Done("save_dict")
    /\ emitted # <<>>
    /\ \E p \in LeafPaths(input) :
          /\ Len(p) >= 3
          /\ At(input, p).t \in {"inf", "ninf", "nan"}
          /\ IsList(At(input, Front(p)))
          /\ IsList(At(input, Front(Front(p))))

\* out is x with +Infinity, -Infinity and NaN replaced by the largest
\* float, the smallest float and 0.0, and everything else as it was
IsSanitized(x, out) ==
    /\ SameShape(x, out)
    /\ \A p \in LeafPaths(x) :
          At(out, p) = CASE At(x, p).t = "inf"  -> DMax(1, 1)
                         [] At(x, p).t = "ninf" -> DMax(-1, 1)
                         [] At(x, p).t = "nan"  -> R(0, 1)
                         [] OTHER               -> At(x, p)

\* C11: DirectScaler._fix_special_values and CamtasiaJSONEncoder._preprocess
\* compute the same function: +Infinity becomes 1.7976931348623157e308,
\* -Infinity becomes -1.7976931348623157e308, NaN becomes 0.0, and every
\* other leaf, every key order and every array length is unchanged.
C11_SanitizersAgree ==
    /\ Done("fix_special_values") =>
          IsSanitized(input, result) /\ result = preprocess(input)
    /\ Done("preprocess") =>
          IsSanitized(input, result) /\ result = fix_special_values(input)

\* a tree holding all three non-finite values, and other leaves, sanitized
C11_Witness ==
    /\ Done("fix_special_values")
    /\ \A t \in {"inf", "ninf", "nan", "int", "real"} :
          \E p \in LeafPaths(input) : At(input, p).t = t
    /\ result # input

Pipelines == {"xyscale_direct", "xyscale_typed", "timescale", "xyscale_timescale"}

\* C12: in every load-transform-save pipeline (xyscale direct, xyscale
\* through the typed models, timescale) the sanitizer is applied to the
\* decoded tree before the transform runs and to the transformed tree
\* before the output is encoded.
C12_SanitizedBeforeAndAfter ==
    op \in Pipelines =>
      /\ IsSanitized(input, loaded)
      /\ ~HasErr(transformed) => IsSanitized(transformed, result)

NonFinite == {"inf", "ninf", "nan"}

Replacements ==
    {"Converting -Infinity to safe minimum value",
     "Converting Infinity to safe maximum value",
     "Converting NaN to 0.0"}

\* C13: a document holding NaN, Infinity or -Infinity in a numeric leaf, a
\* classified field such as start or duration included, is processed to
\* completion by the pipeline of either pass: no error is raised, the value
\* is replaced and the replacement is logged.
C13_NonFiniteNeverFatal ==
    (op \in Pipelines /\ factor[1] > 0 /\ Kinds(input) \cap NonFinite # {}) =>
      /\ ~HasErr(result)
      /\ Kinds(result) \cap NonFinite = {}
      /\ log \cap Replacements # {}

\* C14: the tree transform of each pass never mutates its input: after
\* transform_dict (Spatial or Temporal) or DirectScaler.scale_data returns,
\* the tree that was passed in equals at every depth what it was before
\* the call, and the result is a new tree.
C14_InputNotMutated ==
    \A name \in {"objects_transform_dict_spatial", "objects_transform_dict_temporal",
                 "objects_scale_data"} :
      Done(name) =>
        /\ AfterCall(input, result) = input
        /\ result.id # input.id

\* C15: the tree returned by transform_dict shares no object or array with
\* its input, for either pass, objects nested inside keyframe entries and
\* keyframe entries that are not objects included.
C15_NoSharedNodes ==
    \A name \in {"objects_transform_dict_spatial", "objects_transform_dict_temporal"} :
      Done(name) => Objects(result) = {}

\* C16: scale_spatial(f) and scale_temporal(f) of the typed model objects
\* return a new object and leave the original equal to its value before the
\* call, the keyframe lists inside a media item's parameters included.
C16_TypedOriginalKept ==
    \A name \in {"project_scale_spatial", "project_scale_temporal"} :
      Done(name) => AfterCall(input, result) = input

FileOps == Pipelines \cup {"save_dict"}

\* C17: after every file operation (DirectScaler.scale_file, and load,
\* transform and ProjectSaver.save_file as xyscale and timescale run them)
\* the destination holds either the complete transformed document or its
\* previous content: no failure of a step (parse, transform, encode, write)
\* leaves it overwritten, truncated or partially written.
C17_DestinationAllOrNothing ==
    op \in FileOps =>
      \/ dest = OldText
      \/ ~HasErr(transformed) /\ dest = encode(transformed)

\* C18: on malformed input xyscale and timescale fail with
\* json.JSONDecodeError, surfaced to the caller as raised, before any
\* transform step runs and before the output file is created or opened.
C18_MalformedInputRaisesDecodeError ==
    (/\ op \in {"xyscale_direct", "xyscale_typed", "timescale"}
     /\ factor[1] > 0
     /\ input = Corrupt) =>
      /\ raised = "JSONDecodeError"
      /\ steps = <<"decode">>
      /\ dest = OldText
      /\ emitted = <<>>

\* timescale was run on the corrupted file
C18_Witness ==
    /\ op = "timescale"
    /\ input = Corrupt
    /\ raised = "JSONDecodeError"
    /\ doc # Corrupt

\* the expected top-level fields the document does not hold
Missing(data) ==
    {ExpectedFields[i] : i \in {j \in 1..Len(ExpectedFields) : ~HasKey(data, ExpectedFields[j])}}

DefaultValue(k) ==
    CASE k = "width"     -> I(1920)
      [] k = "height"    -> I(1080)
      [] k = "editRate"  -> I(705600000)
      [] k = "sourceBin" -> EmptyList
      [] OTHER           -> EmptyDict

\* the document with the default put in for each expected field it lacks
WithDefaults(data) ==
    LET Lacking(k) == ~HasKey(data, k)
        lacking == SelectSeq(ExpectedFields, Lacking)
    IN  [data EXCEPT !.kv = @ \o [i \in 1..Len(lacking) |->
                                   KV(lacking[i], DefaultValue(lacking[i]))]]

\* the document declares version "4.0" or "9.0"
DeclaresSupported(data) ==
    IsDict(data) /\ HasKey(data, "version") /\ Get(data, "version") \in {W("4.0"), W("9.0")}

\* C19: when expected top-level fields (width, height, editRate, sourceBin,
\* timeline) are absent, ProjectLoader.load_dict does not fail, in strict
\* mode or not: it returns the project the document would give with the
\* defaults in their place (width 1920, height 1080, editRate 705600000,
\* empty source bin, empty timeline) and logs a warning.  (The version
\* check of strict mode is set aside: the document declares a supported
\* version, or the loader is not strict.)
C19_MissingFieldsDefaulted ==
    (/\ op = "load_dict" /\ IsDict(input) /\ Missing(input) # {}
     /\ (DeclaresSupported(input) \/ ~flag)) =>
      /\ raised = "none"
      /\ result = Project_to_dict(Project_from_dict(WithDefaults(input)))
      /\ log # {}

\* the canvas size of the document, where given, is a number
NumericCanvas(data) ==
    \A k \in {"width", "height"} : HasKey(data, k) => IsNumber(Get(data, k))

\* C20: for a structurally valid document (it passes the validation and
\* its canvas size is numeric) whose declared version is not "4.0" or "9.0"
\* (unknown, missing or legacy), ProjectLoader.load_dict raises ValueError
\* exactly when strict_version_check is true; without it a Project is
\* returned.
C20_UnsupportedVersionFatalIffStrict ==
    (/\ op = "load_dict" /\ ~validation_errors(input) /\ NumericCanvas(input)
     /\ ~DeclaresSupported(input)) =>
      /\ (raised = "ValueError") <=> flag
      /\ ~flag => raised = "none" /\ ~HasErr(result)

\* a complete legacy document refused by the strict loader
C20_Witness ==
    /\ op = "load_dict"
    /\ flag
    /\ input = HeaderDoc("3.0", {})
    /\ raised = "ValueError"
    /\ HasErr(result)

\* an audio item whose duration, mediaStart and mediaDuration were scaled as
\* those of any other item are: int(value * factor)
AudioItemScaled(in, out, f) ==
    (IsDict(in) /\ GetOr(in, "_type", Null) = AMFile) =>
      \A k \in {"duration", "mediaStart", "mediaDuration"} :
         (HasKey(in, k) /\ IsNumber(Get(in, k))) =>
            HasKey(out, k) /\ Get(out, k) = IntOf(Mul(Get(in, k), f))

\* C21: the preserve_audio_duration flag of TransformConfig governs the
\* Temporal pass on audio items, in transform_dict and in transform_project:
\* with the flag off duration, mediaStart and mediaDuration of AMFile items
\* are scaled by the factor as for other items, with the flag on they are
\* left unchanged.
C21_FlagGovernsAudio ==
    \A name \in {"transform_dict_temporal", "transform_project_temporal"} :
      Done(name) =>
        \A i \in 1..Len(MediasOf(input)) :
           IF flag THEN AudioItemKept(MediasOf(input)[i], MediasOf(result)[i], factor)
           ELSE AudioItemScaled(MediasOf(input)[i], MediasOf(result)[i], factor)

\* the factor of two passes taken as one
Compound(f, g) == <<f[1] * g[1], f[2] * g[2]>>

\* out is the tree single, but that an integer leaf of single may be off by
\* up to drift units
SameButDrift(single, out, drift) ==
    /\ SameShape(single, out)
    /\ \A p \in LeafPaths(single) :
          IF At(single, p).t = "int"
            THEN /\ At(out, p).t = "int"
                 /\ Abs(At(out, p).n - At(single, p).n) <= drift
            ELSE At(out, p) = At(single, p)

\* C22: the Spatial pass with factor a and then with factor b gives the tree
\* of one pass with factor a * b, but that each integer-typed scaled leaf
\* may be off by one unit per compounded step (two units for the two steps).
C22_SpatialCompounds ==
    /\ Done("scale_data_twice") =>
          SameButDrift(scale_data(input, Compound(factor, second)), result, 2)
    /\ Done("transform_dict_spatial_twice") =>
          SameButDrift(transform_dict_spatial(input, Compound(factor, second)), result, 2)

\* out holds the number x, or one that is off by at most drift
Within(out, x, drift) ==
    /\ out.t \in {"int", "real"}
    /\ Abs(out.n * x.d - x.n * out.d) <= drift * x.d * out.d

\* C23: a pass with factor f followed by a pass with factor 1 / f leaves
\* every integer leaf within 1 of its original value and gives back every
\* real leaf.
C23_InverseRecovers ==
    \A name \in {"scale_data_twice", "transform_dict_spatial_twice",
                 "transform_dict_temporal_twice"} :
      (Done(name) /\ second = <<factor[2], factor[1]>>) =>
        /\ SameShape(input, result)
        /\ \A p \in LeafPaths(input) :
              LET x == At(input, p)
              IN  IF x.t = "int" THEN Within(At(result, p), x, 1)
                  ELSE IF x.t = "real" THEN Within(At(result, p), x, 0)
                  ELSE TRUE

RoundTrips == {"project_round_trip", "save_load_round_trip", "canvas_round_trip",
               "source_track_round_trip"}

\* C24: a typed model serialised and loaded back equals the model:
\* Project.from_dict(p.to_dict()), ProjectLoader.load_file after
\* ProjectSaver.save_file, Canvas.from_dict(c.to_dict()) and
\* SourceTrack.from_dict(t.to_dict()), the sample rate of each source track
\* and the type and time fields of each media item included.
C24_RoundTripEqual ==
    op \in RoundTrips => models[2] = models[1]

\* C25: when the input path does not exist or scale is not positive, xyscale
\* and timescale report an error and return without raising, without
\* running a load or transform step and without creating or changing an
\* output file.
C25_InvalidArgumentsRejected ==
    (op \in Pipelines /\ (input = Absent \/ factor[1] <= 0)) =>
      /\ raised = "none"
      /\ log \in {{"Input file does not exist"}, {"Scale factor must be positive"}}
      /\ steps = <<>>
      /\ dest = OldText
      /\ emitted = <<>>
      /\ result = Null

\* timescale was given a scale of zero for a file that exists
C25_Witness ==
    /\ op = "timescale"
    /\ input = doc
    /\ factor[1] = 0
    /\ log = {"Scale factor must be positive"}
    /\ steps = <<>>

\* C26: the two implementations of the Temporal pass agree on a media item:
\* for every type (VMFile, AMFile, IMFile, Callout) and every factor, start,
\* duration, mediaStart, mediaDuration and trimStartSum are the same from
\* transform_dict on the item's dictionary and from the typed scale_temporal
\* followed by to_dict.
C26_TemporalImplementationsAgree ==
    Done("media_scale_temporal") =>
      LET walked == transform_dict_temporal(input, factor, TRUE)
      IN  \A k \in {"start", "duration", "mediaStart", "mediaDuration", "trimStartSum"} :
            HasKey(input, k) =>
              /\ HasKey(walked, k) /\ HasKey(result, k)
              /\ Get(result, k) = Get(walked, k)

\* a JSON value that is no number
NotANumber(x) == x.t \in {"str", "null", "obj", "arr"}

\* C27: DirectScaler.scale_data treats width and height of the root as it
\* treats the same keys deeper in the document: a number is scaled and keeps
\* its type, a value that is no number is passed through unchanged and no
\* error is raised.
C27_RootWidthHeightLikeNested ==
    (op = "scale_data" /\ IsDict(input)) =>
      \A k \in {"width", "height"} :
         HasKey(input, k) =>
           IF NotANumber(Get(input, k))
             THEN ~HasErr(result) /\ Get(result, k) = Get(input, k)
             ELSE Get(result, k) = scale_number(Get(input, k), factor)

\* C28: the tree transforms are total over untyped documents:
\* transform_dict of either pass and DirectScaler.scale_data return a tree
\* and raise nothing, whatever nodes appear under classified keys.
C28_TransformsTotal ==
    op \in {"transform_dict_spatial", "transform_dict_temporal", "scale_data"} =>
      ~HasErr(result) /\ raised = "none"

\* out is x * f cut towards zero
IsTruncation(out, x, f) ==
    /\ out.t = "int"
    /\ LET p == x.n * f[1]
           q == x.d * f[2]
       IN  IF p >= 0 THEN out.n * q <= p /\ p < (out.n + 1) * q
                     ELSE out.n * q >= p /\ p > (out.n - 1) * q

Walkers == {"scale_data", "transform_dict_spatial", "transform_dict_temporal"}

\* out is x scaled once by f, as the walker called name scales a number
ScaledOnce(name, out, x, f) ==
    IF name = "scale_data"
      THEN IF x.t = "int" THEN IsRoundHalfEven(out, x, f)
                          ELSE IsRealProduct(out, x, f)
    ELSE IF name = "transform_dict_spatial" THEN IsRealProduct(out, x, f)
    ELSE IsTruncation(out, x, f)

\* C29: in one pass of DirectScaler.scale_data or of
\* PropertyTransformer.transform_dict every finite numeric leaf of the
\* output is the input leaf or the input leaf scaled once by the factor:
\* no leaf is scaled twice where the special cases meet.
C29_NoLeafScaledTwice ==
    \A name \in Walkers :
       Done(name) =>
         \A p \in LeafPaths(input) :
            At(input, p).t \in {"int", "real"} =>
              /\ p \in Paths(result)
              /\ \/ At(result, p) = At(input, p)
                 \/ ScaledOnce(name, At(result, p), At(input, p), factor)

\* scale_data by 1.5 over the document where the special cases meet: the
\* wrapped value 3 and the keyframe value 3 both come out as 4, the rect
\* element 3 as 4 and 1.5 as 2.25
C29_Witness ==
    /\ Done("scale_data")
    /\ input = OverlapDoc
    /\ factor = <<3, 2>>
    /\ At(result, <<1, 1, 1>>) = I(4)
    /\ At(result, <<1, 1, 2, 1, 2>>) = I(4)
    /\ At(result, <<1, 2, 3>>) = I(4)
    /\ At(result, <<1, 2, 4>>) = R(9, 4)

\* the media items of a track dictionary
ItemsOf(track) == ListOf(GetOr(track, "medias", Arr(<<>>)))

\* every item has a start and a duration that are integers of at least 0
IntegerTimes(track) ==
    \A i \in 1..Len(ItemsOf(track)) :
       LET m == ItemsOf(track)[i]
       IN  /\ IsDict(m) /\ HasKey(m, "start") /\ HasKey(m, "duration")
           /\ Get(m, "start").t = "int" /\ Get(m, "start").n >= 0
           /\ Get(m, "duration").t = "int" /\ Get(m, "duration").n >= 0

\* each item ends no later than the next one starts
NonOverlapping(track) ==
    \A i \in 1..(Len(ItemsOf(track)) - 1) :
       Get(ItemsOf(track)[i], "start").n + Get(ItemsOf(track)[i], "duration").n
         <= Get(ItemsOf(track)[i + 1], "start").n

\* C30: Track.scale_temporal keeps a track free of overlaps: when the items
\* of the track, audio or not, with integer times of at least 0, do not
\* overlap before the call, they do not overlap after it, for every
\* positive factor.
C30_TrackStaysNonOverlapping ==
    (Done("track_scale_temporal") /\ IntegerTimes(input) /\ NonOverlapping(input))
      => (IntegerTimes(result) /\ NonOverlapping(result))

====
